---- MODULE Spec2Model ----
(***************************************************************************)
(* Model of the descend push pipeline engine: chain construction from      *)
(* stage descriptors, the driving loop of apply (iterate / done / end),    *)
(* the leaf stages filter, take_n, count, to<vector>, max, and the         *)
(* higher-order stages tee, group_by and map_group_by with their nested    *)
(* sub-chains.  Every call that reaches a stage instance is recorded in    *)
(* the history variable trace, in call order.                              *)
(***************************************************************************)
EXTENDS Integers, Sequences, FiniteSets, TLC

\* ---------------------------------------------------------------- bounds
MaxLen == 3
MaxVal == 3
MaxK == 2
MaxPull == MaxK + 2
MaxArity == 3

Values == 1..MaxVal

\* ------------------------------------------------------------- utilities
Perms(S) ==
    {s \in [1..Cardinality(S) -> S] :
        \A a, b \in 1..Cardinality(S) : a # b => s[a] # s[b]}

SortedSeq(S) ==
    CHOOSE s \in Perms(S) : \A a, b \in 1..Cardinality(S) : a < b => s[a] < s[b]

SeqsUpTo(S, n) == UNION {[1..m -> S] : m \in 0..n}

Prefix(s, n) == SubSeq(s, 1, n)

Min(a, b) == IF a < b THEN a ELSE b

Ev(path, call, arg) == [path |-> path, call |-> call, arg |-> arg]

NoArg == [v |-> 0, p |-> "none"]

\* the value r, computed once, handed to the rest of the computation K
Bind(r, K(_)) == K(r)

\* ------------------------------------------------------------ provenance
\* x -> const X&, std::ref(x) -> X&, std::move(x) -> X&&
unwrap_input(how) ==
    CASE how = "ref" -> "BorrowedMutable"
      [] how = "rvalue" -> "OwnedMovable"
      [] OTHER -> "BorrowedImmutable"

\* std::as_const(input)
as_const(x) == [x EXCEPT !.p = "BorrowedImmutable"]

\* ------------------------------------------------------ stage descriptors
filter(pred) == [kind |-> "filter", pred |-> pred]
take_n(n) == [kind |-> "take_n", n |-> n]
count == [kind |-> "count"]
to_vector == [kind |-> "to"]
max == [kind |-> "max"]
tee(subchains) == [kind |-> "tee", subchains |-> subchains]
\* flatten() is flatten_stage<false>, flatten_forward() is flatten_stage<true>
flatten == [kind |-> "flatten", PreserveRvalueRefs |-> FALSE]
flatten_forward == [kind |-> "flatten", PreserveRvalueRefs |-> TRUE]
\* sort(): sort_stage<std::less<>, false>
sort == [kind |-> "sort"]
\* swizzle<Is...>(): Is are the indices, counted from 0
swizzle(Is) == [kind |-> "swizzle", Is |-> Is]
\* unwrap_optional() and unwrap_error_or()
unwrap_optional == [kind |-> "unwrap_optional"]
unwrap_error_or == [kind |-> "unwrap_error_or"]
group_by(key_getter, composed_chain) ==
    [kind |-> "group_by", key_getter |-> key_getter, composed_chain |-> composed_chain]
map_group_by(Map, key_getter, composed_chain) ==
    [kind |-> "map_group_by", Map |-> Map, key_getter |-> key_getter,
     composed_chain |-> composed_chain]

\* the callbacks the pipelines of the model are built with
Pred(pred, v) == IF pred = "even" THEN v % 2 = 0 ELSE v % 2 = 1

std_invoke(key_getter, v) == IF key_getter = "identity" THEN v ELSE v % 2

\* ------------------------------------------------------ chain construction
RECURSIVE make_chain(_)

make_impl(st) ==
    CASE st.kind = "take_n" -> [kind |-> "take_n", n |-> st.n]
      [] st.kind = "filter" -> [kind |-> "filter", pred |-> st.pred]
      [] st.kind = "count" -> [kind |-> "count", count |-> 0]
      [] st.kind = "to" -> [kind |-> "to", out |-> <<>>]
      [] st.kind = "max" -> [kind |-> "max", max |-> <<>>]
      [] st.kind = "flatten" ->
            [kind |-> "flatten", PreserveRvalueRefs |-> st.PreserveRvalueRefs]
      [] st.kind = "swizzle" -> [kind |-> "swizzle", Is |-> st.Is]
      [] st.kind = "sort" -> [kind |-> "sort"]
      [] st.kind \in {"unwrap_optional", "unwrap_error_or"} ->
            [kind |-> st.kind, carrier |-> [ok |-> TRUE, val |-> 0]]
      [] st.kind = "tee" ->
            [kind |-> "tee",
             chains |-> [s \in DOMAIN st.subchains |-> make_chain(st.subchains[s])]]
      [] st.kind = "group_by" ->
            [kind |-> "group_by", key_getter |-> st.key_getter,
             composed_chain |-> st.composed_chain,
             current_group |-> <<>>, made |-> 0]
      [] st.kind = "map_group_by" ->
            [kind |-> "map_group_by", Map |-> st.Map, key_getter |-> st.key_getter,
             composed_chain |-> st.composed_chain, chains |-> <<>>]

make_chain(stages) == [i \in DOMAIN stages |-> make_impl(stages[i])]

make_subchain_for_input(composed_chain) == make_chain(composed_chain)

\* ------------------------------------------------------------ stage styles
incremental_to_incremental == [input |-> "incremental", output |-> "incremental"]
incremental_to_complete == [input |-> "incremental", output |-> "complete"]
complete_to_complete == [input |-> "complete", output |-> "complete"]

\* the source seen as the stage before the first one
range_as_stage_wrapper == [kind |-> "range_as_stage_wrapper"]

style(st) ==
    CASE st.kind \in {"filter", "take_n", "flatten", "swizzle", "group_by", "map_group_by",
                       "unwrap_optional", "unwrap_error_or"} ->
            incremental_to_incremental
      [] st.kind \in {"count", "to", "max", "tee"} -> incremental_to_complete
      [] st.kind \in {"sort", "range_as_stage_wrapper"} -> complete_to_complete

has_incremental_input(Stage) == style(Stage).input = "incremental"
has_incremental_output(Stage) == style(Stage).output = "incremental"
has_complete_input(Stage) == style(Stage).input = "complete"
has_complete_output(Stage) == style(Stage).output = "complete"

\* the position the elements of the source are handed to: the first stage
\* with incremental input (chain.get(index<0>).process_complete runs the
\* complete stages before it)
Entry(ch) ==
    IF \E i \in DOMAIN ch : has_incremental_input(ch[i])
    THEN CHOOSE i \in DOMAIN ch :
            /\ has_incremental_input(ch[i])
            /\ \A j \in 1..(i - 1) : has_complete_input(ch[j])
    ELSE Len(ch) + 1

\* ------------------------------------------------------------------ done
has_done(impl) == impl.kind \in {"take_n", "unwrap_optional", "unwrap_error_or"}

\* take_n::done that tests the wrong bound
impl_done_never(impl) == impl.n < 0

\* take_n: n == 0; unwrap_optional: !carrier.has_value(); unwrap_error_or:
\* carrier.has_error()
impl_done(impl) == IF impl.kind = "take_n" THEN impl.n = 0 ELSE ~impl.carrier.ok

RECURSIVE done(_, _)

\* the done() that answers false for a stage without a completion condition
done_no_delegation(ch, i) ==
    IF i > Len(ch) THEN FALSE
    ELSE IF has_done(ch[i]) THEN impl_done(ch[i])
    ELSE FALSE

done(ch, i) ==
    IF i > Len(ch) THEN FALSE
    ELSE IF has_done(ch[i]) THEN impl_done(ch[i])
    ELSE done(ch, i + 1)

\* ------------------------------------------------- push execution of a chain
RECURSIVE std_sort(_)

\* std::sort(std::begin(range), std::end(range), std::less<>{})
std_sort(range) ==
    IF range = <<>> THEN <<>>
    ELSE LET j == CHOOSE a \in DOMAIN range : \A b \in DOMAIN range : range[a] <= range[b]
         IN  <<range[j]>>
             \o std_sort(SubSeq(range, 1, j - 1) \o SubSeq(range, j + 1, Len(range)))

RECURSIVE process_incremental(_, _, _, _, _)
RECURSIVE end(_, _, _, _)
RECURSIVE emit_current_group(_, _, _, _)
RECURSIVE tee_process_incremental(_, _, _, _, _)
RECURSIVE make_result_tuple(_, _, _, _)
RECURSIVE iterate_like(_, _, _, _, _)
RECURSIVE iterate_like_unordered_map(_, _, _, _, _)
RECURSIVE flatten_iterate_like(_, _, _, _, _, _)
RECURSIVE component_process_complete(_, _, _, _, _)
RECURSIVE chain_iterate_like(_, _, _, _, _)

\* chain::process_complete: the value handed to the position past the last stage
process_complete(ch, i, path, val) ==
    [ch |-> ch,
     ev |-> <<Ev(path \o <<i>>, "process_complete", [v |-> val, p |-> "OwnedMovable"])>>,
     ret |-> val]

\* take_n that forgets to spend its budget
take_n_process_incremental_nospend(ch, i, path, x, ora) ==
    IF ch[i].n # 0
    THEN process_incremental(ch, i + 1, path, x, ora)
    ELSE [ch |-> ch, ev |-> <<>>]

\* a take_n that keeps forwarding once its budget is spent
take_n_process_incremental_overruns(ch, i, path, x, ora) ==
    Bind(process_incremental(ch, i + 1, path, x, ora),
         LAMBDA r : [ch |-> [r.ch EXCEPT ![i].n = IF @ = 0 THEN 0 ELSE @ - 1], ev |-> r.ev])

\* a take_n that forwards and counts down without looking at its budget
take_n_process_incremental_unguarded(ch, i, path, x, ora) ==
    Bind(process_incremental(ch, i + 1, path, x, ora),
         LAMBDA r : [ch |-> [r.ch EXCEPT ![i].n = @ - 1], ev |-> r.ev])

take_n_process_incremental(ch, i, path, x, ora) ==
    IF ch[i].n # 0
    THEN Bind(process_incremental(ch, i + 1, path, x, ora),
              LAMBDA r : [ch |-> [r.ch EXCEPT ![i].n = @ - 1], ev |-> r.ev])
    ELSE [ch |-> ch, ev |-> <<>>]

\* filter that hands on the read-only view it gave to the predicate
filter_process_incremental_forwards_view(ch, i, path, x, ora) ==
    Bind(IF Pred(ch[i].pred, as_const(x).v)
         THEN process_incremental(ch, i + 1, path, as_const(x), ora)
         ELSE [ch |-> ch, ev |-> <<>>],
         LAMBDA r : [ch |-> r.ch, ev |-> <<Ev(path \o <<i>>, "pred", as_const(x))>> \o r.ev])

\* the call of the predicate is recorded with the argument it is given
filter_process_incremental(ch, i, path, x, ora) ==
    Bind(IF Pred(ch[i].pred, as_const(x).v)
         THEN process_incremental(ch, i + 1, path, x, ora)
         ELSE [ch |-> ch, ev |-> <<>>],
         LAMBDA r : [ch |-> r.ch, ev |-> <<Ev(path \o <<i>>, "pred", as_const(x))>> \o r.ev])

count_process_incremental(ch, i) ==
    [ch |-> [ch EXCEPT ![i].count = @ + 1], ev |-> <<>>]

\* to<C> that inserts at the front of the container
to_process_incremental_prepends(ch, i, x) ==
    [ch |-> [ch EXCEPT ![i].out = <<x.v>> \o @], ev |-> <<>>]

to_process_incremental(ch, i, x) ==
    [ch |-> [ch EXCEPT ![i].out = Append(@, x.v)], ev |-> <<>>]

max_process_incremental(ch, i, x) ==
    IF ch[i].max = <<>> \/ ch[i].max[1] < x.v
    THEN [ch |-> [ch EXCEPT ![i].max = <<x.v>>], ev |-> <<>>]
    ELSE [ch |-> ch, ev |-> <<>>]

\* a bundle is a sequence of positions [v, p]; p is the declared type of the
\* position: "Owned" (T), "OwnedMovable" (T&&), "BorrowedMutable" (T&),
\* "BorrowedImmutable" (const T&)

\* change_last_arg_impl that hands every prefix position on as it is declared
change_last_arg_impl_keeps_rvalue(I, tuple, sub, PreserveRvalueRefs) ==
    IF I = Len(tuple) THEN sub
    ELSE IF tuple[I].p = "Owned" THEN [tuple[I] EXCEPT !.p = "OwnedMovable"]
    ELSE tuple[I]

\* position I of the bundle emitted for the inner element sub
change_last_arg_impl(I, tuple, sub, PreserveRvalueRefs) ==
    IF I = Len(tuple) THEN sub
    ELSE IF tuple[I].p = "OwnedMovable"
    THEN (IF PreserveRvalueRefs THEN tuple[I] ELSE as_const(tuple[I]))
    ELSE IF tuple[I].p \in {"BorrowedMutable", "BorrowedImmutable"} THEN tuple[I]
    ELSE as_const(tuple[I])

change_last_arg(args, sub, PreserveRvalueRefs) ==
    [I \in DOMAIN args |-> change_last_arg_impl(I, args, sub, PreserveRvalueRefs)]

\* std::get<N - 1>((Args&&) args): a position held by value is handed out as T&&
get_last_arg_as_range(args) ==
    IF args[Len(args)].p = "Owned"
    THEN [args[Len(args)] EXCEPT !.p = "OwnedMovable"]
    ELSE args[Len(args)]

\* the elements iterate() hands to the callback for the range last:
\* unwrap_input, then forward_like<Range>(*b)
range_elements(last) ==
    [j \in DOMAIN last.v |->
        [v |-> last.v[j],
         p |-> unwrap_input(IF last.p = "OwnedMovable" THEN "rvalue" ELSE "lvalue")]]

\* a flatten that hands on every inner element without asking done()
flatten_iterate_like_ignores_done(ch, i, path, x, elems, ora) ==
    IF elems = <<>> THEN [ch |-> ch, ev |-> <<>>]
    ELSE Bind(process_incremental(
                  ch, i + 1, path,
                  [v |-> change_last_arg(x.v, Head(elems), ch[i].PreserveRvalueRefs),
                   p |-> "OwnedMovable"], ora),
              LAMBDA r :
                Bind(flatten_iterate_like(r.ch, i, path, x, Tail(elems), ora),
                     LAMBDA rest : [ch |-> rest.ch, ev |-> r.ev \o rest.ev]))

\* iterate_like(Range&&, done, callback) inside flatten: elems = the inner
\* elements from the iterator b to the end
flatten_iterate_like(ch, i, path, x, elems, ora) ==
    IF elems = <<>> THEN [ch |-> ch, ev |-> <<>>]
    ELSE Bind(process_incremental(
                  ch, i + 1, path,
                  [v |-> change_last_arg(x.v, Head(elems), ch[i].PreserveRvalueRefs),
                   p |-> "OwnedMovable"], ora),
              LAMBDA r :
                IF done(r.ch, i + 1) THEN r
                ELSE Bind(flatten_iterate_like(r.ch, i, path, x, Tail(elems), ora),
                          LAMBDA rest : [ch |-> rest.ch, ev |-> r.ev \o rest.ev]))

flatten_process_incremental(ch, i, path, x, ora) ==
    IF done(ch, i + 1) THEN [ch |-> ch, ev |-> <<>>]
    ELSE flatten_iterate_like(ch, i, path, x,
                              range_elements(get_last_arg_as_range(x.v)), ora)

\* std::get<I>(((Args&&) args).as_tuple()) for a bundle reached as Args&&:
\* from a tuple&& a position held by value comes out as T&&, a reference as
\* it is declared; from a const tuple& a value comes out as const T&, from a
\* tuple& as T&, and a T&& position collapses to T& in both
std_get(I, args, Args) ==
    IF Args \in {"Owned", "OwnedMovable"}
    THEN (IF args[I + 1].p = "Owned"
          THEN [args[I + 1] EXCEPT !.p = "OwnedMovable"] ELSE args[I + 1])
    ELSE IF args[I + 1].p = "Owned"
    THEN [args[I + 1] EXCEPT !.p = Args]
    ELSE IF args[I + 1].p = "OwnedMovable"
    THEN [args[I + 1] EXCEPT !.p = "BorrowedMutable"]
    ELSE args[I + 1]

\* swizzle that hands on the first positions of the bundle, in their order
swizzle_stage_swizzle_takes_prefix(Is, x) ==
    [m \in DOMAIN Is |-> std_get(m - 1, x.v, x.p)]

\* swizzle_stage::swizzle: make_args_elementwise over index_sequence<Is...>
swizzle_stage_swizzle(Is, x) ==
    [m \in DOMAIN Is |-> std_get(Is[m], x.v, x.p)]

swizzle_process_incremental(ch, i, path, x, ora) ==
    process_incremental(ch, i + 1, path,
                        [v |-> swizzle_stage_swizzle(ch[i].Is, x), p |-> "OwnedMovable"],
                        ora)

\* tee that stops handing the element on once a sub-chain reports done()
tee_process_incremental_stops_at_done(chains, s, path, x, ora) ==
    IF s > Len(chains) THEN [chains |-> chains, ev |-> <<>>]
    ELSE Bind(process_incremental(chains[s], 1, path \o <<s>>, as_const(x), ora),
              LAMBDA r :
                IF done(r.ch, 1)
                THEN [chains |-> [chains EXCEPT ![s] = r.ch], ev |-> r.ev]
                ELSE Bind(tee_process_incremental([chains EXCEPT ![s] = r.ch], s + 1,
                                                  path, x, ora),
                          LAMBDA rest : [chains |-> rest.chains, ev |-> r.ev \o rest.ev]))

\* tee that forwards the element itself to its sub-chains
tee_process_incremental_forwards(chains, s, path, x, ora) ==
    IF s > Len(chains) THEN [chains |-> chains, ev |-> <<>>]
    ELSE Bind(process_incremental(chains[s], 1, path \o <<s>>, x, ora),
              LAMBDA r :
                Bind(tee_process_incremental([chains EXCEPT ![s] = r.ch], s + 1, path, x, ora),
                     LAMBDA rest : [chains |-> rest.chains, ev |-> r.ev \o rest.ev]))

\* a tee that passes over the sub-chains that report done()
tee_process_incremental_skips_done(chains, s, path, x, ora) ==
    IF s > Len(chains) THEN [chains |-> chains, ev |-> <<>>]
    ELSE Bind(IF done(chains[s], 1) THEN [ch |-> chains[s], ev |-> <<>>]
              ELSE process_incremental(chains[s], 1, path \o <<s>>, as_const(x), ora),
              LAMBDA r :
                Bind(tee_process_incremental([chains EXCEPT ![s] = r.ch], s + 1, path, x, ora),
                     LAMBDA rest : [chains |-> rest.chains, ev |-> r.ev \o rest.ev]))

\* the comma fold over the sub-chains, s = first sub-chain still to be fed
tee_process_incremental(chains, s, path, x, ora) ==
    IF s > Len(chains) THEN [chains |-> chains, ev |-> <<>>]
    ELSE Bind(process_incremental(chains[s], 1, path \o <<s>>, as_const(x), ora),
              LAMBDA r :
                Bind(tee_process_incremental([chains EXCEPT ![s] = r.ch], s + 1, path, x, ora),
                     LAMBDA rest : [chains |-> rest.chains, ev |-> r.ev \o rest.ev]))

\* a group_by that forgets the open group instead of delivering it
emit_current_group_drops(ch, i, path, ora) == [ch |-> ch, ev |-> <<>>]

emit_current_group(ch, i, path, ora) ==
    IF ch[i].current_group = <<>> THEN [ch |-> ch, ev |-> <<>>]
    ELSE LET g == ch[i].current_group[1]
         IN Bind(end(g.second, 1, path \o <<i, ch[i].made>>, ora),
                 LAMBDA r :
                   Bind(process_incremental(
                            [ch EXCEPT ![i].current_group[1].second = r.ch], i + 1, path,
                            [v |-> <<g.first, r.ret>>, p |-> "OwnedMovable"], ora),
                        LAMBDA n : [ch |-> n.ch, ev |-> r.ev \o n.ev]))

\* group_by that keeps feeding the sub-chain of the previous group after a key change
group_by_process_incremental_keeps_chain(ch, i, path, x, ora) ==
    LET key == std_invoke(ch[i].key_getter, as_const(x).v)
        kg == <<Ev(path \o <<i>>, "key_getter", as_const(x))>>
        first == ch[i].current_group = <<>>
        fresh == first \/ ch[i].current_group[1].first # key
        made == IF fresh THEN ch[i].made + 1 ELSE ch[i].made
        sub == path \o <<i, made>>
        mk == IF fresh THEN <<Ev(sub, "make_subchain_for_input", NoArg)>> ELSE <<>>
    IN Bind(IF fresh THEN emit_current_group(ch, i, path, ora)
            ELSE [ch |-> ch, ev |-> <<>>],
            LAMBDA e :
              Bind(IF first
                   THEN [e.ch EXCEPT
                           ![i].current_group =
                               <<[first |-> key,
                                  second |-> make_subchain_for_input(ch[i].composed_chain)]>>,
                           ![i].made = made]
                   ELSE IF fresh
                   THEN [e.ch EXCEPT ![i].current_group[1].first = key, ![i].made = made]
                   ELSE ch,
                   LAMBDA ch1 :
                     Bind(process_incremental(ch1[i].current_group[1].second, 1, sub, x, ora),
                          LAMBDA r :
                            [ch |-> [ch1 EXCEPT ![i].current_group[1].second = r.ch],
                             ev |-> kg \o e.ev \o mk \o r.ev])))

\* group_by that asks the key function again after it handed the element on
group_by_process_incremental_rereads(ch, i, path, x, ora) ==
    LET key == std_invoke(ch[i].key_getter, as_const(x).v)
        kg == <<Ev(path \o <<i>>, "key_getter", as_const(x))>>
        fresh == ch[i].current_group = <<>> \/ ch[i].current_group[1].first # key
        made == IF fresh THEN ch[i].made + 1 ELSE ch[i].made
        sub == path \o <<i, made>>
        mk == IF fresh THEN <<Ev(sub, "make_subchain_for_input", NoArg)>> ELSE <<>>
    IN Bind(IF fresh THEN emit_current_group(ch, i, path, ora)
            ELSE [ch |-> ch, ev |-> <<>>],
            LAMBDA e :
              Bind(IF fresh
                   THEN [e.ch EXCEPT
                           ![i].current_group =
                               <<[first |-> key,
                                  second |-> make_subchain_for_input(ch[i].composed_chain)]>>,
                           ![i].made = made]
                   ELSE ch,
                   LAMBDA ch1 :
                     Bind(process_incremental(ch1[i].current_group[1].second, 1, sub, x, ora),
                          LAMBDA r :
                            [ch |-> [ch1 EXCEPT ![i].current_group[1].second = r.ch],
                             ev |-> kg \o e.ev \o mk \o r.ev \o kg])))

group_by_process_incremental(ch, i, path, x, ora) ==
    LET key == std_invoke(ch[i].key_getter, as_const(x).v)
        kg == <<Ev(path \o <<i>>, "key_getter", as_const(x))>>
        fresh == ch[i].current_group = <<>> \/ ch[i].current_group[1].first # key
        made == IF fresh THEN ch[i].made + 1 ELSE ch[i].made
        sub == path \o <<i, made>>
        mk == IF fresh THEN <<Ev(sub, "make_subchain_for_input", NoArg)>> ELSE <<>>
    IN Bind(IF fresh THEN emit_current_group(ch, i, path, ora)
            ELSE [ch |-> ch, ev |-> <<>>],
            LAMBDA e :
              Bind(IF fresh
                   THEN [e.ch EXCEPT
                           ![i].current_group =
                               <<[first |-> key,
                                  second |-> make_subchain_for_input(ch[i].composed_chain)]>>,
                           ![i].made = made]
                   ELSE ch,
                   LAMBDA ch1 :
                     Bind(process_incremental(ch1[i].current_group[1].second, 1, sub, x, ora),
                          LAMBDA r :
                            [ch |-> [ch1 EXCEPT ![i].current_group[1].second = r.ch],
                             ev |-> kg \o e.ev \o mk \o r.ev])))

\* map_group_by that emplaces a new sub-chain for every element
map_group_by_process_incremental_always_emplaces(ch, i, path, x, ora) ==
    LET key == std_invoke(ch[i].key_getter, as_const(x).v)
        kg == <<Ev(path \o <<i>>, "key_getter", as_const(x))>>
        sub == path \o <<i, key>>
        chains1 == [q \in DOMAIN ch[i].chains \cup {key} |->
                      IF q = key THEN make_subchain_for_input(ch[i].composed_chain)
                      ELSE ch[i].chains[q]]
        mk == <<Ev(sub, "make_subchain_for_input", NoArg)>>
    IN Bind(process_incremental(chains1[key], 1, sub, x, ora),
            LAMBDA r : [ch |-> [ch EXCEPT ![i].chains = [chains1 EXCEPT ![key] = r.ch]],
                        ev |-> kg \o mk \o r.ev])

\* map_group_by that reports the key of every element to the next stage at once
map_group_by_process_incremental_reports_key(ch, i, path, x, ora) ==
    LET key == std_invoke(ch[i].key_getter, as_const(x).v)
        kg == <<Ev(path \o <<i>>, "key_getter", as_const(x))>>
        sub == path \o <<i, key>>
        fresh == key \notin DOMAIN ch[i].chains
        chains1 == IF fresh
                   THEN (key :> make_subchain_for_input(ch[i].composed_chain)) @@ ch[i].chains
                   ELSE ch[i].chains
        mk == IF fresh THEN <<Ev(sub, "make_subchain_for_input", NoArg)>> ELSE <<>>
    IN Bind(process_incremental(chains1[key], 1, sub, x, ora),
            LAMBDA r :
              Bind(process_incremental([ch EXCEPT ![i].chains = [chains1 EXCEPT ![key] = r.ch]],
                                       i + 1, path, [v |-> <<key, 0>>, p |-> "OwnedMovable"], ora),
                   LAMBDA n : [ch |-> n.ch, ev |-> kg \o mk \o r.ev \o n.ev]))

map_group_by_process_incremental(ch, i, path, x, ora) ==
    LET key == std_invoke(ch[i].key_getter, as_const(x).v)
        kg == <<Ev(path \o <<i>>, "key_getter", as_const(x))>>
        sub == path \o <<i, key>>
        fresh == key \notin DOMAIN ch[i].chains
        chains1 == IF fresh
                   THEN (key :> make_subchain_for_input(ch[i].composed_chain)) @@ ch[i].chains
                   ELSE ch[i].chains
        mk == IF fresh THEN <<Ev(sub, "make_subchain_for_input", NoArg)>> ELSE <<>>
    IN Bind(process_incremental(chains1[key], 1, sub, x, ora),
            LAMBDA r : [ch |-> [ch EXCEPT ![i].chains = [chains1 EXCEPT ![key] = r.ch]],
                        ev |-> kg \o mk \o r.ev])

\* unwrap_optional_stage::impl::process_incremental and
\* unwrap_error_or_stage::impl::process_incremental; an element is
\* [ok, val]: ok is has_value(), val the value or the error code (0 for an
\* empty optional); the carrier of the stage keeps the last error it was handed
unwrap_process_incremental(ch, i, path, x, ora) ==
    IF x.v.ok
    THEN process_incremental(ch, i + 1, path,
                             [v |-> x.v.val, p |-> IF x.p = "Owned" THEN "OwnedMovable" ELSE x.p],
                             ora)
    ELSE [ch |-> [ch EXCEPT ![i].carrier = [ok |-> FALSE, val |-> x.v.val]], ev |-> <<>>]

\* stage_chain_component::process_incremental at position i of chain ch
process_incremental(ch, i, path, x, ora) ==
    Bind(CASE ch[i].kind = "take_n" -> take_n_process_incremental(ch, i, path, x, ora)
           [] ch[i].kind \in {"unwrap_optional", "unwrap_error_or"} ->
                unwrap_process_incremental(ch, i, path, x, ora)
           [] ch[i].kind = "filter" -> filter_process_incremental(ch, i, path, x, ora)
           [] ch[i].kind = "count" -> count_process_incremental(ch, i)
           [] ch[i].kind = "to" -> to_process_incremental(ch, i, x)
           [] ch[i].kind = "max" -> max_process_incremental(ch, i, x)
           [] ch[i].kind = "flatten" -> flatten_process_incremental(ch, i, path, x, ora)
           [] ch[i].kind = "swizzle" -> swizzle_process_incremental(ch, i, path, x, ora)
           [] ch[i].kind = "tee" ->
                Bind(tee_process_incremental(ch[i].chains, 1, path \o <<i>>, x, ora),
                     LAMBDA t : [ch |-> [ch EXCEPT ![i].chains = t.chains], ev |-> t.ev])
           [] ch[i].kind = "group_by" -> group_by_process_incremental(ch, i, path, x, ora)
           [] ch[i].kind = "map_group_by" ->
                map_group_by_process_incremental(ch, i, path, x, ora),
         LAMBDA r : [ch |-> r.ch,
                     ev |-> <<Ev(path \o <<i>>, "process_incremental", x)>> \o r.ev])

\* a tee that asks only one of its sub-chains for its result
make_result_tuple_ends_first_only(chains, order, path, ora) ==
    IF order = <<>> THEN [chains |-> chains, ev |-> <<>>, ret |-> [s \in DOMAIN chains |-> 0]]
    ELSE Bind(end(chains[Head(order)], 1, path \o <<Head(order)>>, ora),
              LAMBDA r :
                [chains |-> [chains EXCEPT ![Head(order)] = r.ch], ev |-> r.ev,
                 ret |-> [[s \in DOMAIN chains |-> 0] EXCEPT ![Head(order)] = r.ret]])

\* sub-chain end() calls of tee, made in the order the build evaluates the
\* arguments of std::make_tuple; order = the sub-chains still to be ended
make_result_tuple(chains, order, path, ora) ==
    IF order = <<>> THEN [chains |-> chains, ev |-> <<>>, ret |-> [s \in DOMAIN chains |-> 0]]
    ELSE Bind(end(chains[Head(order)], 1, path \o <<Head(order)>>, ora),
              LAMBDA r :
                Bind(make_result_tuple([chains EXCEPT ![Head(order)] = r.ch],
                                       Tail(order), path, ora),
                     LAMBDA rest :
                       [chains |-> rest.chains, ev |-> r.ev \o rest.ev,
                        ret |-> [rest.ret EXCEPT ![Head(order)] = r.ret]]))

tee_order(n, ora) == IF ora.rev THEN [s \in 1..n |-> n + 1 - s] ELSE [s \in 1..n |-> s]

\* the callback process_element of map_group_by::end for the map entry of key k
process_element(ch, i, path, k, extract, ora) ==
    Bind(end(ch[i].chains[k], 1, path \o <<i, k>>, ora),
         LAMBDA r :
           Bind(process_incremental(
                    [ch EXCEPT ![i].chains =
                        IF extract
                        THEN [q \in DOMAIN ch[i].chains \ {k} |-> ch[i].chains[q]]
                        ELSE [ch[i].chains EXCEPT ![k] = r.ch]],
                    i + 1, path, [v |-> <<k, r.ret>>, p |-> "OwnedMovable"], ora),
                LAMBDA n : [ch |-> n.ch, ev |-> r.ev \o n.ev]))

\* a loop over the map that does not look at done()
iterate_like_ignores_done(ch, i, path, keys, ora) ==
    IF keys = <<>> THEN [ch |-> ch, ev |-> <<>>]
    ELSE Bind(process_element(ch, i, path, Head(keys), FALSE, ora),
              LAMBDA r :
                Bind(iterate_like(r.ch, i, path, Tail(keys), ora),
                     LAMBDA rest : [ch |-> rest.ch, ev |-> r.ev \o rest.ev]))

\* iterate_like(Range&&, done, callback) over the map of position i; keys = the
\* keys from the iterator b to the end of the range
iterate_like(ch, i, path, keys, ora) ==
    IF keys = <<>> THEN [ch |-> ch, ev |-> <<>>]
    ELSE Bind(process_element(ch, i, path, Head(keys), FALSE, ora),
              LAMBDA r :
                IF done(r.ch, i + 1) THEN r
                ELSE Bind(iterate_like(r.ch, i, path, Tail(keys), ora),
                          LAMBDA rest : [ch |-> rest.ch, ev |-> r.ev \o rest.ev]))

\* iterate_like(std::unordered_map&&, done, callback); keys = extraction order
iterate_like_unordered_map(ch, i, path, keys, ora) ==
    IF done(ch, i + 1) \/ keys = <<>> THEN [ch |-> ch, ev |-> <<>>]
    ELSE Bind(process_element(ch, i, path, Head(keys), TRUE, ora),
              LAMBDA r :
                Bind(iterate_like_unordered_map(r.ch, i, path, Tail(keys), ora),
                     LAMBDA rest : [ch |-> rest.ch, ev |-> r.ev \o rest.ev]))

InDomain(keys, f) == SelectSeq(keys, LAMBDA k : k \in DOMAIN f)

\* a map that is walked from its largest key down
std_map_descending(chains) ==
    [j \in 1..Cardinality(DOMAIN chains) |->
        SortedSeq(DOMAIN chains)[Cardinality(DOMAIN chains) + 1 - j]]

\* begin(range) .. end(range) of a std::map: its keys in ascending order
std_map_begin_to_end(chains) == SortedSeq(DOMAIN chains)

map_group_by_end(ch, i, path, ora) ==
    Bind(IF ch[i].Map = "unordered_map"
         THEN iterate_like_unordered_map(ch, i, path,
                                         InDomain(ora.keys, ch[i].chains), ora)
         ELSE IF done(ch, i + 1) THEN [ch |-> ch, ev |-> <<>>]
         ELSE iterate_like(ch, i, path, std_map_begin_to_end(ch[i].chains), ora),
         LAMBDA b :
           Bind(end(b.ch, i + 1, path, ora),
                LAMBDA r : [ch |-> r.ch, ev |-> b.ev \o r.ev, ret |-> r.ret]))

\* group_by::end that forgets the open group
group_by_end_drops_open_group(ch, i, path, ora) ==
    end(ch, i + 1, path, ora)

group_by_end(ch, i, path, ora) ==
    Bind(emit_current_group(ch, i, path, ora),
         LAMBDA e :
           Bind(end(e.ch, i + 1, path, ora),
                LAMBDA r : [ch |-> r.ch, ev |-> e.ev \o r.ev, ret |-> r.ret]))

tee_end(ch, i, path, ora) ==
    Bind(make_result_tuple(ch[i].chains, tee_order(Len(ch[i].chains), ora),
                           path \o <<i>>, ora),
         LAMBDA t :
           Bind(component_process_complete([ch EXCEPT ![i].chains = t.chains], i + 1, path,
                                           t.ret, ora),
                LAMBDA r : [ch |-> r.ch, ev |-> t.ev \o r.ev, ret |-> r.ret]))

\* a bridge that hands over every element of the complete output
chain_iterate_like_ignores_done(ch, i, path, elems, ora) ==
    IF elems = <<>> THEN [ch |-> ch, ev |-> <<>>]
    ELSE Bind(process_incremental(ch, i, path, Head(elems), ora),
              LAMBDA r :
                Bind(chain_iterate_like(r.ch, i, path, Tail(elems), ora),
                     LAMBDA rest : [ch |-> rest.ch, ev |-> r.ev \o rest.ev]))

\* iterate_like(Range&&, done, callback) of the bridge before position i:
\* elems = the elements from the iterator b to the end of the complete output
chain_iterate_like(ch, i, path, elems, ora) ==
    IF elems = <<>> THEN [ch |-> ch, ev |-> <<>>]
    ELSE Bind(process_incremental(ch, i, path, Head(elems), ora),
              LAMBDA r :
                IF done(r.ch, i) THEN r
                ELSE Bind(chain_iterate_like(r.ch, i, path, Tail(elems), ora),
                          LAMBDA rest : [ch |-> rest.ch, ev |-> r.ev \o rest.ev]))

\* next.process_complete(val) at position i: chain::process_complete past the
\* last stage, sort_stage::impl::process_complete at a stage with complete
\* input, and before a stage with incremental input the bridge of
\* stage_chain_component::process_complete: iterate, then end(); val arrives
\* as an rvalue, so its elements are handed over as T&&
component_process_complete(ch, i, path, val, ora) ==
    IF i > Len(ch) THEN process_complete(ch, i, path, val)
    ELSE IF has_complete_input(ch[i])
    THEN Bind(component_process_complete(ch, i + 1, path, std_sort(val), ora),
              LAMBDA r :
                [ch |-> r.ch,
                 ev |-> <<Ev(path \o <<i>>, "process_complete",
                             [v |-> val, p |-> "OwnedMovable"])>> \o r.ev,
                 ret |-> r.ret])
    ELSE Bind(IF done(ch, i) THEN [ch |-> ch, ev |-> <<>>]
              ELSE chain_iterate_like(ch, i, path,
                                      [j \in DOMAIN val |-> [v |-> val[j], p |-> "OwnedMovable"]],
                                      ora),
              LAMBDA b :
                Bind(end(b.ch, i, path, ora),
                     LAMBDA r : [ch |-> r.ch, ev |-> b.ev \o r.ev, ret |-> r.ret]))

\* std::optional<T> and error_or<T> as values: ok is has_value(), val holds
\* the value, or the error code, or nothing
Carrier(k, ok, val) == [k |-> k, ok |-> ok, val |-> val]

CarrierOf(kind) == IF kind = "unwrap_optional" THEN "optional" ELSE "error_or"

RECURSIVE callable_result_type(_, _)

\* the carrier that the value of end() at position i is, "none" if it is no
\* carrier: every end() returns what the rest of the chain returns, and the
\* first unwrap stage of the rest wraps it
callable_result_type(ch, i) ==
    IF i > Len(ch) THEN "none"
    ELSE IF ch[i].kind \in {"unwrap_optional", "unwrap_error_or"} THEN CarrierOf(ch[i].kind)
    ELSE callable_result_type(ch, i + 1)

\* a wrap that adds a layer to every result
wrap_result_if_needed_always_wraps(k, carrier, callable_result, r) ==
    IF carrier.ok THEN Carrier(k, TRUE, <<r>>)
    ELSE Carrier(k, FALSE, IF k = "optional" THEN <<>> ELSE <<carrier.val>>)

\* wrap_result_with_optional_if_needed / wrap_result_with_error_or_if_needed
\* for the result r of the callable (looked at only when the carrier has a value)
wrap_result_if_needed(k, carrier, callable_result, r) ==
    IF carrier.ok
    THEN (IF callable_result = k THEN r ELSE Carrier(k, TRUE, <<r>>))
    ELSE Carrier(k, FALSE, IF k = "optional" THEN <<>> ELSE <<carrier.val>>)

\* unwrap_optional_stage::impl::end and unwrap_error_or_stage::impl::end: the
\* callable next.end() is invoked only when the carrier has a value; the value
\* the stage returns is recorded
unwrap_end(ch, i, path, ora) ==
    Bind(IF ch[i].carrier.ok
         THEN Bind(end(ch, i + 1, path, ora),
                   LAMBDA r :
                     [ch |-> r.ch, ev |-> r.ev,
                      ret |-> wrap_result_if_needed(CarrierOf(ch[i].kind), ch[i].carrier,
                                                    callable_result_type(ch, i + 1), r.ret)])
         ELSE [ch |-> ch, ev |-> <<>>,
               ret |-> wrap_result_if_needed(CarrierOf(ch[i].kind), ch[i].carrier,
                                             callable_result_type(ch, i + 1), 0)],
         LAMBDA r :
           [ch |-> r.ch,
            ev |-> r.ev \o <<Ev(path \o <<i>>, "return", [v |-> r.ret, p |-> "Owned"])>>,
            ret |-> r.ret])

\* stage_chain_component::end at position i of chain ch
end(ch, i, path, ora) ==
    Bind(CASE ch[i].kind \in {"take_n", "filter", "flatten", "swizzle"} ->
                end(ch, i + 1, path, ora)
           [] ch[i].kind \in {"unwrap_optional", "unwrap_error_or"} ->
                unwrap_end(ch, i, path, ora)
           [] ch[i].kind = "count" ->
                component_process_complete(ch, i + 1, path, ch[i].count, ora)
           [] ch[i].kind = "to" ->
                component_process_complete(ch, i + 1, path, ch[i].out, ora)
           [] ch[i].kind = "max" ->
                component_process_complete(ch, i + 1, path, ch[i].max, ora)
           [] ch[i].kind = "tee" -> tee_end(ch, i, path, ora)
           [] ch[i].kind = "group_by" -> group_by_end(ch, i, path, ora)
           [] ch[i].kind = "map_group_by" -> map_group_by_end(ch, i, path, ora),
         LAMBDA r : [ch |-> r.ch,
                     ev |-> <<Ev(path \o <<i>>, "end", NoArg)>> \o r.ev,
                     ret |-> r.ret])

\* ---------------------------------------------------------------- finalize
\* a result is [ref, ty]: ref is how it is held ("Owned" T, "OwnedMovable" T&&,
\* "BorrowedMutable" T&, "BorrowedImmutable" const T&) and ty its decayed type
\* with its contents: plain, std::reference_wrapper<T>, or args/tuple/pair
plain(n) == [k |-> "plain", val |-> n]
reference_wrapper(c, t) == [k |-> "reference_wrapper", const |-> c, of |-> t]
tuple_like(kd, es) == [k |-> kd, elems |-> es]

is_args_or_pair_or_tuple(t) == t.k \in {"args", "tuple", "pair"}

RECURSIVE finalize_result_t(_, _)

\* a conversion that stops at the first level of a tuple-like
finalize_result_t_shallow(T, UnwrapRefWrappers) ==
    IF T.ty.k = "reference_wrapper" /\ UnwrapRefWrappers
    THEN [ref |-> IF T.ty.const THEN "BorrowedImmutable" ELSE "BorrowedMutable",
          ty |-> T.ty.of]
    ELSE IF is_args_or_pair_or_tuple(T.ty)
    THEN [ref |-> "Owned",
          ty |-> tuple_like(T.ty.k,
                            [j \in DOMAIN T.ty.elems |->
                                IF is_args_or_pair_or_tuple(T.ty.elems[j].ty)
                                THEN [ref |-> "Owned", ty |-> T.ty.elems[j].ty]
                                ELSE finalize_result_t(T.ty.elems[j], UnwrapRefWrappers)])]
    ELSE [ref |-> "Owned", ty |-> T.ty]

\* a conversion that also converts what the unwrapped marker refers to
finalize_result_t_converts_referent(T, UnwrapRefWrappers) ==
    IF T.ty.k = "reference_wrapper" /\ UnwrapRefWrappers
    THEN [ref |-> IF T.ty.const THEN "BorrowedImmutable" ELSE "BorrowedMutable",
          ty |-> finalize_result_t([ref |-> "Owned", ty |-> T.ty.of], UnwrapRefWrappers).ty]
    ELSE IF is_args_or_pair_or_tuple(T.ty)
    THEN [ref |-> "Owned",
          ty |-> tuple_like(T.ty.k,
                            [j \in DOMAIN T.ty.elems |->
                                finalize_result_t(T.ty.elems[j], UnwrapRefWrappers)])]
    ELSE [ref |-> "Owned", ty |-> T.ty]

\* finalize_result_helper<remove_cvref_t<T>, UnwrapRefWrappers>::type and the
\* value result_type{(Args&&) args...} builds of it
finalize_result_t(T, UnwrapRefWrappers) ==
    IF T.ty.k = "reference_wrapper" /\ UnwrapRefWrappers
    THEN [ref |-> IF T.ty.const THEN "BorrowedImmutable" ELSE "BorrowedMutable",
          ty |-> T.ty.of]
    ELSE IF is_args_or_pair_or_tuple(T.ty)
    THEN [ref |-> "Owned",
          ty |-> tuple_like(T.ty.k,
                            [j \in DOMAIN T.ty.elems |->
                                finalize_result_t(T.ty.elems[j], UnwrapRefWrappers)])]
    ELSE [ref |-> "Owned", ty |-> T.ty]

\* finalize that hands a bundle back as the std::tuple it was converted to
finalize_returns_tuple(output) ==
    IF is_args_or_pair_or_tuple(output.ty)
    THEN [ref |-> "Owned",
          ty |-> tuple_like(IF output.ty.k = "args" THEN "tuple" ELSE output.ty.k,
                            finalize_result_t(output, TRUE).ty.elems)]
    ELSE [ref |-> "Owned", ty |-> output.ty]

finalize(output) ==
    IF is_args_or_pair_or_tuple(output.ty)
    THEN finalize_result_t(output, TRUE)
    ELSE [ref |-> "Owned", ty |-> output.ty]

\* ---------------------------------------------------------------- sources
Ranges ==
    [kind : {"range"}, elems : SeqsUpTo(Values, MaxLen), how : {"lvalue", "ref", "rvalue"}]

\* iota(b) and iota(b, e) with b <= e
Generators ==
    [kind : {"iota"}, begin : {1}, bounded : {FALSE}, last : {0}]
    \cup {[kind |-> "iota", begin |-> 1, bounded |-> TRUE, last |-> e] : e \in 1..(1 + MaxLen)}

Sources == Ranges \cup Generators

\* ---------------------------------------------------------------- pipelines
Terminals ==
    {<<count>>, <<to_vector>>, <<max>>,
     <<tee(<<(<<count>>), (<<max>>)>>)>>,
     <<tee(<<(<<take_n(1), to_vector>>), (<<filter("odd"), count>>)>>)>>}

Prefixes ==
    {<<>>, <<filter("odd")>>}
    \cup {<<take_n(k)>> : k \in 0..MaxK}
    \cup {<<filter("odd"), take_n(k)>> : k \in 0..MaxK}
    \cup {<<take_n(k), take_n(m)>> : k, m \in 0..MaxK}

SubChains == {<<to_vector>>, <<count>>, <<take_n(1), to_vector>>}

Groupers ==
    {group_by(kg, sub) : kg \in {"identity", "mod2"}, sub \in SubChains}
    \cup {map_group_by(M, kg, sub) :
            M \in {"map", "unordered_map"}, kg \in {"identity", "mod2"}, sub \in SubChains}

Pipelines ==
    {pre \o t : pre \in Prefixes, t \in Terminals}
    \cup {<<g>> \o post \o <<to_vector>> :
            g \in Groupers, post \in {<<>>} \cup {<<take_n(m)>> : m \in 0..MaxK}}

\* ------------------------------------------------------------------ state
VARIABLES input, stages, chain, it, pulls, pc, trace, result

vars == <<input, stages, chain, it, pulls, pc, trace, result>>

Init ==
    /\ input \in Sources
    /\ stages \in Pipelines
    /\ chain = make_chain(stages)
    /\ it = 0
    /\ pulls = 0
    /\ pc = "start"
    /\ trace = <<>>
    /\ result = <<>>

\* the nondeterminism of the build and of the hash map: the evaluation order of
\* the sub-chain end() calls of tee and the bucket order of std::unordered_map
HasKind(ch, kind) == \E i \in DOMAIN ch : ch[i].kind = kind

UnorderedKeys(ch) ==
    UNION {DOMAIN ch[i].chains :
             i \in {j \in DOMAIN ch : ch[j].kind = "map_group_by" /\ ch[j].Map = "unordered_map"}}

Oracles(ch) ==
    [keys : Perms(UnorderedKeys(ch)),
     rev : IF HasKind(ch, "tee") THEN BOOLEAN ELSE {FALSE}]

\* the element the source hands to the callback next
\* an iota(b, e) that reports exhaustion one value early
Exhausted_one_early ==
    IF input.kind = "range" THEN it = Len(input.elems)
    ELSE input.bounded /\ input.begin + it + 1 >= input.last

Exhausted ==
    IF input.kind = "range" THEN it = Len(input.elems)
    ELSE input.bounded /\ input.begin + it = input.last

\* a loop that walks a container from its last element to its first
NextElem_backwards ==
    IF input.kind = "range"
    THEN [v |-> input.elems[Len(input.elems) - it], p |-> unwrap_input(input.how)]
    ELSE [v |-> input.begin + it, p |-> "OwnedMovable"]

NextElem ==
    IF input.kind = "range"
    THEN [v |-> input.elems[it + 1], p |-> unwrap_input(input.how)]
    ELSE IF input.kind = "iota"
    THEN [v |-> input.begin + it, p |-> "OwnedMovable"]
    ELSE [v |-> input.out, p |-> "OwnedMovable"]

\* a loop that returns without end() when done() holds before the first element
Start_skips_end ==
    /\ pc = "start"
    /\ pc' = IF done(chain, 1) THEN "returned" ELSE "loop"
    /\ UNCHANGED <<input, stages, chain, it, pulls, trace, result>>

\* the first done() test of iterate_like / iterate_generator
Start ==
    /\ pc = "start"
    /\ pc' = IF done(chain, 1) THEN "end" ELSE "loop"
    /\ UNCHANGED <<input, stages, chain, it, pulls, trace, result>>

\* one round of the loop: the callback on the next element, then done()
Feed ==
    /\ pc = "loop"
    /\ ~Exhausted
    /\ (input.kind # "range" /\ ~input.bounded) => it < MaxPull
    /\ \E ora \in Oracles(chain) :
         \E r \in {process_incremental(chain, Entry(chain), <<>>, NextElem, ora)} :
            /\ chain' = r.ch
            /\ trace' = trace \o r.ev
            /\ pc' = IF done(r.ch, 1) THEN "end" ELSE "loop"
    /\ it' = it + 1
    /\ pulls' = pulls + 1
    /\ UNCHANGED <<input, stages, result>>

\* b == e, or the generator reports that nothing follows
Stop ==
    /\ pc = "loop"
    /\ Exhausted
    /\ pc' = "end"
    /\ pulls' = IF input.kind = "iota" THEN pulls + 1 ELSE pulls
    /\ UNCHANGED <<input, stages, chain, it, trace, result>>

\* return end(); result is <<>> until apply returns and then holds the one
\* returned value
Finish ==
    /\ pc = "end"
    /\ \E ora \in Oracles(chain) :
         \E r \in {end(chain, Entry(chain), <<>>, ora)} :
            /\ chain' = r.ch
            /\ trace' = trace \o r.ev
            /\ result' = <<r.ret>>
    /\ pc' = "returned"
    /\ UNCHANGED <<input, stages, it, pulls>>

Next == Start \/ Feed \/ Stop \/ Finish

Spec == Init /\ [][Next]_vars

\* the runs of apply(G, take_n(k), T) over a generator G; the single thread of
\* the program always takes its next step
InitGen ==
    /\ Init
    /\ input \in Generators
    /\ Len(stages) = 2
    /\ stages[1].kind = "take_n"

\* a step of the loop is possible (Start, Feed, Stop or Finish is enabled)
CanStep ==
    \/ pc \in {"start", "end"}
    \/ pc = "loop" /\ (Exhausted \/ ~(input.kind = "iota" /\ ~input.bounded) \/ it < MaxPull)

\* every step of Next moves pc or the iterator; Advance is Next seen through
\* these two variables, so that fairness on it is fairness on Next
Advance ==
    /\ CanStep
    /\ pc' \in {"loop", "end", "returned"}
    /\ it' \in {it, it + 1}
    /\ <<pc', it'>> # <<pc, it>>

FairSpec == InitGen /\ [][Next]_vars /\ WF_<<pc, it>>(Advance)

\* ------------------------------------------------- bundles handed to flatten
Tags == {"Owned", "OwnedMovable", "BorrowedMutable", "BorrowedImmutable"}

\* the positions before the last one; each carries its index as value
BundlePrefixes ==
    {[j \in DOMAIN t |-> [v |-> j, p |-> t[j]]] :
        t \in UNION {[1..n -> Tags] : n \in 1..(MaxArity - 1)}}

\* the last position: an iterable of 0..MaxLen elements
InnerRanges == {[v |-> [j \in 1..m |-> j], p |-> t] : m \in 0..MaxLen, t \in Tags}

Bundles == {pre \o <<r>> : pre \in BundlePrefixes, r \in InnerRanges}

\* the stream of bundles the stage before flatten produces (each handed over
\* as args&&): one bundle, or the same bundle twice
BundleSources ==
    {[kind |-> "range", elems |-> e, how |-> "rvalue"] :
        e \in {<<b>> : b \in Bundles} \cup {<<b, b>> : b \in Bundles}}

FlattenPipelines ==
    {<<f>> \o post \o <<to_vector>> :
        f \in {flatten, flatten_forward},
        post \in {<<>>} \cup {<<take_n(k)>> : k \in 0..MaxK}}

InitFlatten ==
    /\ input \in BundleSources
    /\ stages \in FlattenPipelines
    /\ chain = make_chain(stages)
    /\ it = 0
    /\ pulls = 0
    /\ pc = "start"
    /\ trace = <<>>
    /\ result = <<>>

FlattenSpec == InitFlatten /\ [][Next]_vars

\* ------------------------------------------- tee over sub-chains that end
\* sub-chains with and without a completion condition
TeeSubChains == {<<count>>} \cup {<<take_n(k), to_vector>> : k \in 0..MaxK}

TeePipelines ==
    {pre \o <<tee(<<a, b>>)>> :
        pre \in {<<>>, <<filter("odd")>>, <<take_n(MaxK)>>},
        a \in TeeSubChains, b \in TeeSubChains}

\* containers handed over with std::move, and the generators
InitTee ==
    /\ input \in {r \in Ranges : r.how = "rvalue"} \cup Generators
    /\ stages \in TeePipelines
    /\ chain = make_chain(stages)
    /\ it = 0
    /\ pulls = 0
    /\ pc = "start"
    /\ trace = <<>>
    /\ result = <<>>

TeeSpec == InitTee /\ [][Next]_vars

\* ------------------------------------------------------- runs over iota
\* iota(b) and iota(b, e) with b <= e, for every first value b
IotaGenerators ==
    {[kind |-> "iota", begin |-> b, bounded |-> FALSE, last |-> 0] : b \in 1..MaxVal}
    \cup {[kind |-> "iota", begin |-> b, bounded |-> TRUE, last |-> e] :
            b \in 1..MaxVal, e \in 1..(MaxVal + MaxLen)}

\* chains without a completion condition: only the generator ends the loop
IotaPipelines == {<<to_vector>>, <<count>>, <<filter("odd"), to_vector>>}

InitIota ==
    /\ input \in {g \in IotaGenerators : g.bounded => g.begin <= g.last}
    /\ stages \in IotaPipelines
    /\ chain = make_chain(stages)
    /\ it = 0
    /\ pulls = 0
    /\ pc = "start"
    /\ trace = <<>>
    /\ result = <<>>

IotaSpec == InitIota /\ [][Next]_vars

\* ------------------------------------------------ flatten behind flatten
\* the inner ranges of the inner ranges: 0..MaxK values each
Rows == {[j \in 1..m |-> j] : m \in 0..MaxK}

\* generator<T>(f) that never reports exhaustion and hands out, at every
\* pull, one bundle whose last position holds a range of 0..MaxK rows
NestedGenerators ==
    {[kind |-> "generator", bounded |-> FALSE, out |-> <<[v |-> rows, p |-> t]>>] :
        rows \in SeqsUpTo(Rows, MaxK), t \in {"Owned", "BorrowedMutable"}}

NestedFlattenPipelines ==
    {<<f, g, take_n(k), to_vector>> :
        f \in {flatten, flatten_forward}, g \in {flatten, flatten_forward}, k \in 0..MaxK}

InitNested ==
    /\ input \in NestedGenerators
    /\ stages \in NestedFlattenPipelines
    /\ chain = make_chain(stages)
    /\ it = 0
    /\ pulls = 0
    /\ pc = "start"
    /\ trace = <<>>
    /\ result = <<>>

\* no Stop: the generator never reports exhaustion
NextNested == Start \/ Feed \/ Finish

NestedFlattenSpec == InitNested /\ [][NextNested]_vars

\* ------------------------------------------- carriers handed to unwrap stages
\* error codes
Errors == 1..2

nullopt == [ok |-> FALSE, val |-> 0]

\* std::optional<int>
Optionals == {nullopt} \cup {[ok |-> TRUE, val |-> n] : n \in 1..2}

\* std::optional<std::optional<int>>
NestedOptionals == {nullopt} \cup {[ok |-> TRUE, val |-> o] : o \in {nullopt, [ok |-> TRUE, val |-> 1]}}

\* error_or<int>
ErrorOrs == {[ok |-> TRUE, val |-> 1]} \cup {[ok |-> FALSE, val |-> e] : e \in Errors}

CarrierRanges(Elems) ==
    [kind : {"range"}, elems : SeqsUpTo(Elems, MaxLen), how : {"lvalue", "rvalue"}]

\* the stages around one unwrap stage u: alone, behind a take_n that lets
\* every element pass, and in a sub-chain of tee
UnwrapPipelines(u) ==
    {pre \o <<u>> \o post :
        pre \in {<<>>, <<take_n(MaxLen)>>},
        post \in {<<count>>, <<to_vector>>, <<take_n(1), to_vector>>}}
    \cup {<<tee(<<(<<u, count>>), (<<count>>)>>)>>}

\* two unwrap stages for carriers of carriers
NestedUnwrapPipelines ==
    {<<unwrap_optional, unwrap_optional>> \o post : post \in {<<count>>, <<to_vector>>}}

InitUnwrap ==
    /\ \/ input \in CarrierRanges(Optionals) /\ stages \in UnwrapPipelines(unwrap_optional)
       \/ input \in CarrierRanges(ErrorOrs) /\ stages \in UnwrapPipelines(unwrap_error_or)
       \/ input \in CarrierRanges(NestedOptionals) /\ stages \in NestedUnwrapPipelines
    /\ chain = make_chain(stages)
    /\ it = 0
    /\ pulls = 0
    /\ pc = "start"
    /\ trace = <<>>
    /\ result = <<>>

UnwrapSpec == InitUnwrap /\ [][Next]_vars

\* ------------------------------------------------- results handed to finalize
Held(T) == [ref : Tags, ty : T]

Plains == {plain(n) : n \in 1..MaxK}

\* pairs, tuples and bundles of two plain positions, held in every way
InnerTuples ==
    {tuple_like(kd, <<[ref |-> a, ty |-> plain(1)], [ref |-> b, ty |-> plain(MaxK)]>>) :
        kd \in {"args", "tuple", "pair"}, a \in Tags, b \in Tags}

Markers == {reference_wrapper(c, t) : c \in BOOLEAN, t \in Plains \cup InnerTuples}

\* the tuple-likes handed to finalize: the first position is anything, the
\* others are plain
OuterTuples ==
    {tuple_like(kd, <<e>> \o rest) :
        kd \in {"args", "tuple"},
        e \in Held(Plains \cup InnerTuples \cup Markers),
        rest \in UNION {[1..n -> Held({plain(1)})] : n \in 0..(MaxArity - 2)}}
    \cup {tuple_like("pair", <<e, f>>) :
            e \in Held(Plains \cup InnerTuples \cup Markers), f \in Held({plain(1)})}

Outputs == Held(Plains \cup Markers \cup OuterTuples)

InitFinalize ==
    /\ input \in Outputs
    /\ stages = <<>>
    /\ chain = <<>>
    /\ it = 0
    /\ pulls = 0
    /\ pc = "end"
    /\ trace = <<>>
    /\ result = <<>>

\* chain::process_complete: return finalize((Output&&) output)
Finalize ==
    /\ pc = "end"
    /\ result' = finalize(input)
    /\ pulls' = 1
    /\ pc' = "returned"
    /\ UNCHANGED <<input, stages, chain, it, trace>>

\* the returned value is handed to finalize once more
Refinalize ==
    /\ pc = "returned"
    /\ pulls = 1
    /\ input' = result
    /\ result' = finalize(result)
    /\ pulls' = pulls + 1
    /\ UNCHANGED <<stages, chain, it, pc, trace>>

NextFinalize == Finalize \/ Refinalize

FinalizeSpec == InitFinalize /\ [][NextFinalize]_vars

\* ------------------------------------------- the types the builder computes
\* a type is [ref, ty]: ref is the reference category ("Owned" T,
\* "OwnedMovable" T&&, "BorrowedMutable" T&, "BorrowedImmutable" const T&) and
\* ty the decayed type
int_t == [k |-> "int"]
size_t == [k |-> "size_t"]
args_t(Ts) == [k |-> "args", Ts |-> Ts]
range_t(value_type) == [k |-> "range", value_type |-> value_type]
generator_t(output_type) == [k |-> "generator", output_type |-> output_type]
reference_wrapper_t(T) == [k |-> "reference_wrapper", of |-> T]

\* the decayed type of the first argument of apply: a container, or a single
\* value that is no range
SourceType(in) ==
    IF in.kind = "scalar" THEN in.value_type ELSE range_t(in.value_type)

\* Range&& of apply(x, ...), apply(std::ref(x), ...), apply(std::move(x), ...)
\* and apply(iota(...), ...)
RangeType(in) ==
    IF in.kind = "iota"
    THEN [ref |-> "Owned", ty |-> generator_t([ref |-> "Owned", ty |-> int_t])]
    ELSE CASE in.how = "lvalue" -> [ref |-> "BorrowedMutable", ty |-> SourceType(in)]
           [] in.how = "ref" ->
                [ref |-> "Owned", ty |-> reference_wrapper_t(SourceType(in))]
           [] in.how = "rvalue" -> [ref |-> "OwnedMovable", ty |-> SourceType(in)]

\* decltype(unwrap_input(std::declval<Input>()))
unwrapped_input_t(Input) ==
    IF Input.ty.k = "reference_wrapper"
    THEN [ref |-> "BorrowedMutable", ty |-> Input.ty.of]
    ELSE IF Input.ty.k = "generator" \/ Input.ref \in {"Owned", "OwnedMovable"}
    THEN [ref |-> "OwnedMovable", ty |-> Input.ty]
    ELSE [ref |-> "BorrowedImmutable", ty |-> Input.ty]

can_iterate_over_v(T) == T.ty.k \in {"range", "generator"}

can_iterate_over_with_unwrap_v(T) == can_iterate_over_v(unwrapped_input_t(T))

\* iterate_output<T>::type: the generator's output_type, or
\* forward_like<T>(value_type) for a range
iterate_output_t(T) ==
    IF T.ty.k = "generator" THEN T.ty.output_type
    ELSE [ref |-> T.ref, ty |-> T.ty.value_type]

iterate_output_with_unwrap_t(T) == iterate_output_t(unwrapped_input_t(T))

\* ------------------------------------------------ binding a stage to a shape
\* the static_asserts of swizzle_stage<Is...> itself
check_distinct(Is) == \A a, b \in DOMAIN Is : a # b => Is[a] # Is[b]

\* an arity test that asks for one position more than the largest index needs
swizzle_make_impl_needs_spare_position(Is, Input) ==
    /\ Is # <<>>
    /\ check_distinct(Is)
    /\ Input.ty.k = "args"
    /\ \A m \in DOMAIN Is : Is[m] + 1 < Len(Input.ty.Ts)

\* swizzle_stage::make_impl<Input>() compiles
swizzle_make_impl(Is, Input) ==
    /\ Is # <<>>
    /\ check_distinct(Is)
    /\ Input.ty.k = "args"
    /\ \A m \in DOMAIN Is : Is[m] < Len(Input.ty.Ts)

\* a can_sort that accepts nothing but a std::ref source
can_sort_needs_reference_wrapper(Input) ==
    /\ Input.ty.k = "reference_wrapper"
    /\ Input.ty.of.k = "range"

\* sort_stage::can_sort: the unwrapped input is a range whose elements can be
\* assigned to
can_sort(Input) ==
    /\ unwrapped_input_t(Input).ty.k = "range"
    /\ unwrapped_input_t(Input).ref # "BorrowedImmutable"

RECURSIVE stage_impl_combiner(_, _, _, _)

\* make_subchain_for_input<Input>(composed_chain) compiles: make_chain over a
\* dummy generator<Input> and the stages of the composition
can_make_subchain_for_input(Input, composed_chain) ==
    stage_impl_combiner(range_as_stage_wrapper,
                        [ref |-> "BorrowedMutable", ty |-> generator_t(Input)],
                        composed_chain, 1)

\* Stage::make_impl<Input>() and the members of impl<Input> compile
binds(Stage, Input) ==
    CASE Stage.kind = "swizzle" -> swizzle_make_impl(Stage.Is, Input)
      [] Stage.kind = "tee" ->
            \A s \in DOMAIN Stage.subchains :
                can_make_subchain_for_input([ref |-> "BorrowedImmutable", ty |-> Input.ty],
                                            Stage.subchains[s])
      [] Stage.kind \in {"group_by", "map_group_by"} ->
            can_make_subchain_for_input(Input, Stage.composed_chain)
      [] Stage.kind = "sort" -> can_sort(Input)
      [] Stage.kind \in {"take_n", "count"} -> TRUE
      [] Stage.kind = "to" -> Input.ty.k = "args" => Len(Input.ty.Ts) = 1

\* impl<Input>::output_type
output_type(Stage, Input) ==
    CASE Stage.kind \in {"take_n", "sort"} -> Input
      [] Stage.kind = "count" -> [ref |-> "Owned", ty |-> size_t]
      [] Stage.kind = "to" -> [ref |-> "Owned", ty |-> range_t(Input.ty)]
      [] Stage.kind = "tee" -> [ref |-> "Owned", ty |-> [k |-> "tuple"]]
      [] Stage.kind \in {"group_by", "map_group_by"} ->
            [ref |-> "Owned", ty |-> args_t(<<"OwnedMovable", "OwnedMovable">>)]
      [] Stage.kind = "swizzle" ->
            [ref |-> "Owned",
             ty |-> args_t([m \in DOMAIN Stage.Is |->
                              std_get(Stage.Is[m],
                                      [j \in DOMAIN Input.ty.Ts |->
                                          [v |-> j, p |-> Input.ty.Ts[j]]],
                                      Input.ref).p])]

\* stage_impl_helper whose first static_assert is missing
stage_impl_helper_connects_styles(PrevStage, prev_output_type, Stage) ==
    /\ ~(/\ has_complete_output(PrevStage)
         /\ has_incremental_input(Stage)
         /\ ~can_iterate_over_with_unwrap_v(prev_output_type))
    /\ ~(prev_output_type.ty.k = "generator" /\ has_complete_input(Stage))

\* the three static_asserts of stage_impl_helper
stage_impl_helper(PrevStage, prev_output_type, Stage) ==
    /\ ~(has_incremental_output(PrevStage) /\ has_complete_input(Stage))
    /\ ~(/\ has_complete_output(PrevStage)
         /\ has_incremental_input(Stage)
         /\ ~can_iterate_over_with_unwrap_v(prev_output_type))
    /\ ~(prev_output_type.ty.k = "generator" /\ has_complete_input(Stage))

\* stage_impl_helper::stage_input_type
stage_input_type(PrevStage, prev_output_type, Stage) ==
    IF has_complete_input(Stage) \/ has_incremental_output(PrevStage)
    THEN prev_output_type
    ELSE iterate_output_with_unwrap_t(prev_output_type)

\* a combiner that accepts any last stage
stage_impl_combiner_accepts_any_last(PrevStage, prev_output_type, sts, i) ==
    IF i > Len(sts) THEN TRUE
    ELSE /\ stage_impl_helper(PrevStage, prev_output_type, sts[i])
         /\ binds(sts[i], stage_input_type(PrevStage, prev_output_type, sts[i]))
         /\ stage_impl_combiner(
                sts[i],
                output_type(sts[i], stage_input_type(PrevStage, prev_output_type, sts[i])),
                sts, i + 1)

\* stage_impl_combiner from stage i on: every static_assert passes and every
\* stage binds to the input type computed for it
stage_impl_combiner(PrevStage, prev_output_type, sts, i) ==
    IF i > Len(sts) THEN has_complete_output(PrevStage)
    ELSE /\ stage_impl_helper(PrevStage, prev_output_type, sts[i])
         /\ binds(sts[i], stage_input_type(PrevStage, prev_output_type, sts[i]))
         /\ stage_impl_combiner(
                sts[i],
                output_type(sts[i], stage_input_type(PrevStage, prev_output_type, sts[i])),
                sts, i + 1)

\* apply(range, stages...) compiles
can_make_chain(in, sts) ==
    stage_impl_combiner(range_as_stage_wrapper, RangeType(in), sts, 1)

\* ---------------------------------------------- sources with a static type
\* element k of a stream of bundles of type args<Ts...>: position j carries
\* the number (k - 1) * MaxArity + j
Bundle(Ts, k) == [j \in DOMAIN Ts |-> [v |-> (k - 1) * MaxArity + j, p |-> Ts[j]]]

BundleTypes == UNION {[1..n -> Tags] : n \in 1..MaxArity}

\* a container of bundles handed over with std::move
TypedBundleSources ==
    {[kind |-> "range", elems |-> [k \in 1..n |-> Bundle(Ts, k)], how |-> "rvalue",
      value_type |-> args_t(Ts)] : Ts \in BundleTypes, n \in 1..2}

TypedRanges ==
    [kind : {"range"}, elems : SeqsUpTo(Values, MaxK), how : {"lvalue", "ref", "rvalue"},
     value_type : {int_t}]

\* containers of containers: every element is itself a sortable range
NestedRanges ==
    [kind : {"range"}, elems : {<<>>, <<(<<2, 1>>)>>}, how : {"lvalue", "ref", "rvalue"},
     value_type : {range_t(int_t)}]

\* apply(x, ...) for a number x: a source that cannot be iterated
TypedScalars ==
    [kind : {"scalar"}, elems : {<<>>}, how : {"lvalue", "ref", "rvalue"},
     value_type : {int_t}]

SwizzleIndices == SeqsUpTo(0..MaxArity, 2) \cup {<<1, 2, 0>>}

SwizzlePipelines ==
    {<<swizzle(Is)>> \o post \o <<count>> :
        Is \in SwizzleIndices, post \in {<<>>, <<take_n(1)>>}}
    \cup {<<swizzle(<<0>>), sort>>}

PlainPipelines ==
    {<<count>>, <<sort>>, <<sort, count>>, <<sort, sort, count>>}
    \cup {pre \o post :
            pre \in {<<take_n(k)>> : k \in 0..MaxK} \cup {<<sort, take_n(k)>> : k \in 0..MaxK},
            post \in {<<>>, <<count>>, <<sort>>, <<sort, count>>}}
    \cup {<<count, sort>>}

\* pipelines with a complete output in front of a stage with incremental input
BridgePipelines ==
    {pre \o <<to_vector>> \o post :
        pre \in {<<>>, <<sort>>, <<take_n(1)>>},
        post \in {<<count>>, <<to_vector>>, <<sort>>, <<sort, count>>}
                 \cup {<<take_n(k), count>> : k \in 0..MaxK}
                 \cup {<<take_n(k), to_vector>> : k \in 0..MaxK}
                 \cup {<<sort, take_n(k), to_vector>> : k \in 0..MaxK}}
    \cup {<<count, count>>, <<to_vector, count, count>>}
    \cup {<<count, take_n(k), count>> : k \in 0..MaxK}

GeneratorPipelines ==
    {<<count>>, <<sort>>, <<sort, count>>}
    \cup {<<take_n(k)>> \o post :
            k \in 0..MaxK,
            post \in {<<count>>, <<to_vector>>, <<to_vector, count>>, <<to_vector, sort>>,
                      <<to_vector, take_n(1), to_vector>>}}

\* pipelines with sub-chains, some of which end in a stage with incremental
\* output
BuildSubChains == {<<count>>, <<take_n(1)>>, <<take_n(1), to_vector>>, <<to_vector, take_n(1)>>}

SubchainPipelines ==
    {<<tee(<<a, b>>)>> : a \in BuildSubChains, b \in {<<count>>, <<take_n(1)>>}}
    \cup {<<g>> \o post :
            g \in {group_by("mod2", sub) : sub \in BuildSubChains}
                  \cup {map_group_by("map", "mod2", sub) : sub \in BuildSubChains},
            post \in {<<>>, <<count>>}}

ScalarPipelines == {<<count>>, <<to_vector>>, <<take_n(1), count>>, <<sort>>}

NestedPipelines ==
    {<<take_n(k)>> \o post :
        k \in 0..MaxK, post \in {<<count>>, <<sort>>, <<sort, count>>}}

InitBuild ==
    /\ \/ input \in TypedBundleSources \cup TypedRanges /\ stages \in SwizzlePipelines
       \/ input \in TypedRanges /\ stages \in PlainPipelines
       \/ input \in NestedRanges /\ stages \in NestedPipelines
       \/ input \in TypedRanges /\ stages \in BridgePipelines
       \/ input \in Generators /\ stages \in GeneratorPipelines
       \/ input \in TypedScalars /\ stages \in ScalarPipelines
       \/ input \in TypedRanges /\ stages \in SubchainPipelines
    /\ chain = <<>>
    /\ it = 0
    /\ pulls = 0
    /\ pc = "make_chain"
    /\ trace = <<>>
    /\ result = <<>>

\* make_chain: the chain exists only if the program compiles
MakeChain ==
    /\ pc = "make_chain"
    /\ IF can_make_chain(input, stages)
       THEN /\ chain' = make_chain(stages)
            /\ pc' = IF has_complete_input(stages[1]) THEN "complete" ELSE "start"
       ELSE /\ chain' = chain
            /\ pc' = "error"
    /\ UNCHANGED <<input, stages, it, pulls, trace, result>>

\* sort_stage::impl::process_complete of the next complete stage the source
\* is handed to (the stages 1..Len(trace) have run); the last stage of the
\* chain hands it to chain::process_complete
ProcessComplete ==
    /\ pc = "complete"
    /\ input' = [input EXCEPT !.elems = std_sort(@)]
    /\ IF Len(trace) + 1 < Len(chain)
       THEN /\ trace' = trace \o <<Ev(<<Len(trace) + 1>>, "process_complete",
                                      [v |-> input.elems, p |-> unwrap_input(input.how)])>>
            /\ pc' = IF has_complete_input(chain[Len(trace) + 2]) THEN "complete" ELSE "start"
            /\ result' = result
       ELSE \E r \in {process_complete(chain, Len(chain) + 1, <<>>, std_sort(input.elems))} :
            /\ trace' = trace \o <<Ev(<<Len(trace) + 1>>, "process_complete",
                                      [v |-> input.elems, p |-> unwrap_input(input.how)])>>
                                \o r.ev
            /\ pc' = "returned"
            /\ result' = r.ret
    /\ UNCHANGED <<stages, chain, it, pulls>>

NextBuild == MakeChain \/ ProcessComplete \/ Start \/ Feed \/ Stop \/ Finish

BuildSpec == InitBuild /\ [][NextBuild]_vars

\* ------------------------------------------------------------- args_invoke
\* a get that hands out what std::get hands out of the const tuple
get_without_as_const(I, args, Args) ==
    IF Args \in {"Owned", "OwnedMovable"} THEN std_get(I, args, "OwnedMovable")
    ELSE std_get(I, args, "BorrowedImmutable")

\* get<I>(args<Ts...>&&) is std::get on the moved tuple; get<I>(const
\* args<Ts...>&) is std::as_const of what std::get hands out of the const tuple
get(I, args, Args) ==
    IF Args \in {"Owned", "OwnedMovable"} THEN std_get(I, args, "OwnedMovable")
    ELSE as_const(std_get(I, args, "BorrowedImmutable"))

\* get<I>(args<Ts...>&) is deleted: a bundle reached as a non-const lvalue
\* cannot be taken apart
is_args_invocable_v(Arg) == ~(Arg.ty.k = "args" /\ Arg.ref = "BorrowedMutable")

\* args_invoke(f, (Arg&&) arg): the arguments f is called with
args_invoke(Arg, arg) ==
    IF Arg.ty.k = "args"
    THEN [j \in DOMAIN arg.v |-> get(j - 1, arg.v, Arg.ref)]
    ELSE <<[v |-> arg.v, p |-> IF Arg.ref = "Owned" THEN "OwnedMovable" ELSE Arg.ref]>>

\* one element x of type value_type on its way through filter(pred),
\* for_each(f): a bundle of every type args<Ts...>, or a number, reached as
\* T, T&&, T& or const T&
InvokeBundles ==
    {[kind |-> "element", x |-> [v |-> Bundle(Ts, 1), p |-> a], value_type |-> args_t(Ts)] :
        Ts \in BundleTypes, a \in Tags}

InvokePlains ==
    {[kind |-> "element", x |-> [v |-> n, p |-> a], value_type |-> int_t] :
        n \in Values, a \in Tags}

InitInvoke ==
    /\ input \in InvokeBundles \/ input \in InvokePlains
    /\ stages = <<>>
    /\ chain = <<>>
    /\ it = 0
    /\ pulls = 0
    /\ pc = "make_chain"
    /\ trace = <<>>
    /\ result = <<>>

\* the calls of args_invoke in the two stages compile
InvokeCheck ==
    /\ pc = "make_chain"
    /\ pc' = IF is_args_invocable_v([ref |-> input.x.p, ty |-> input.value_type])
             THEN "start" ELSE "error"
    /\ UNCHANGED <<input, stages, chain, it, pulls, trace, result>>

\* filter_stage::impl::process_incremental: args_invoke(pred, std::as_const(input))
InvokePred ==
    /\ pc = "start"
    /\ trace' = trace \o
          <<Ev(<<1>>, "pred",
               [v |-> args_invoke([ref |-> "BorrowedImmutable", ty |-> input.value_type],
                                  as_const(input.x)),
                p |-> "BorrowedImmutable"])>>
    /\ pc' = "loop"
    /\ UNCHANGED <<input, stages, chain, it, pulls, result>>

\* for_each_stage::impl::process_incremental: args_invoke(f, (Input&&) input)
InvokeF ==
    /\ pc = "loop"
    /\ trace' = trace \o
          <<Ev(<<2>>, "f",
               [v |-> args_invoke([ref |-> input.x.p, ty |-> input.value_type], input.x),
                p |-> input.x.p])>>
    /\ pc' = "returned"
    /\ UNCHANGED <<input, stages, chain, it, pulls, result>>

NextInvoke == InvokeCheck \/ InvokePred \/ InvokeF

InvokeSpec == InitInvoke /\ [][NextInvoke]_vars

\* ------------------------------------------------------------ compositions
\* an argument written in a call of apply or compose: an object x given as
\* an lvalue or as an rvalue, std::ref(x), or compose(parts...)
Leaf(cat, form, x) == [cat |-> cat, form |-> form, x |-> x, parts |-> <<>>]

Composition(cat, parts) ==
    [cat |-> cat, form |-> "composition", x |-> [kind |-> "composition"], parts |-> parts]

RECURSIVE std_tuple_cat(_)
std_tuple_cat(tuples) ==
    IF tuples = <<>> THEN <<>> ELSE Head(tuples) \o std_tuple_cat(Tail(tuples))

\* std::make_tuple(part): the element is held by value, or as X& when the
\* part is a std::reference_wrapper<X>
std_make_tuple(part) ==
    <<[T |-> IF part.form = "reference_wrapper" THEN "ref" ELSE "value", x |-> part.x]>>

\* as_tuple(part) of a part that was evaluated: the tuple base of a composition,
\* or a tuple made of the part
as_tuple(part) ==
    IF part.form = "composition" THEN part.tuple ELSE std_make_tuple(part)

\* compose(parts...): one tuple of the elements of all parts
compose(parts) == std_tuple_cat([j \in DOMAIN parts |-> as_tuple(parts[j])])

\* the value of an argument as written: every compose(...) in it is called,
\* innermost first
RECURSIVE Eval(_)
Eval(node) ==
    IF node.form = "composition"
    THEN [cat |-> node.cat, form |-> "composition", x |-> node.x,
          tuple |-> compose([j \in DOMAIN node.parts |-> Eval(node.parts[j])])]
    ELSE [cat |-> node.cat, form |-> node.form, x |-> node.x, tuple |-> <<>>]

\* as_forwarding_tuple(part): references to the elements of a composition
\* (std::get on the tuple as it was passed), or a reference to the part
as_forwarding_tuple(part) ==
    IF part.form = "composition"
    THEN [j \in DOMAIN part.tuple |->
            [cat |-> IF part.cat = "rvalue" /\ part.tuple[j].T = "value"
                     THEN "rvalue" ELSE "lvalue",
             form |-> "plain", x |-> part.tuple[j].x]]
    ELSE <<[cat |-> part.cat, form |-> part.form, x |-> part.x]>>

\* forward_compose(parts...).as_tuple(): the arguments func is invoked with
apply_to_decomposed(parts) ==
    std_tuple_cat([j \in DOMAIN parts |-> as_forwarding_tuple(parts[j])])

\* Range&& of apply_no_compositions: how the first argument is handed over
HowOf(arg) == IF arg.form = "reference_wrapper" THEN "ref" ELSE arg.cat

\* the first argument as the source of the run, with the call kept beside it
AsSource(arg, call) ==
    IF arg.x.kind = "iota"
    THEN [kind |-> "iota", begin |-> arg.x.begin, bounded |-> arg.x.bounded,
          last |-> arg.x.last, call |-> call]
    ELSE [kind |-> "range", elems |-> arg.x.elems, how |-> HowOf(arg),
          value_type |-> arg.x.value_type, call |-> call]

\* the objects a call is written with
ComposeRanges == {[kind |-> "range", elems |-> es, value_type |-> int_t] : es \in SeqsUpTo(Values, MaxK)}

ComposeGenerator == [kind |-> "iota", begin |-> 1, bounded |-> TRUE, last |-> 1 + MaxK]

SourceLeaves ==
    {Leaf(c, "plain", r) : c \in {"lvalue", "rvalue"}, r \in ComposeRanges}
    \cup {Leaf("rvalue", "reference_wrapper", r) : r \in ComposeRanges}
    \cup {Leaf("rvalue", "plain", ComposeGenerator)}

ComposeStageLists ==
    {<<sort>>, <<sort, count>>, <<take_n(1), count>>, <<take_n(1), to_vector>>,
     <<take_n(2), to_vector, sort>>, <<take_n(2), take_n(1), to_vector>>,
     <<sort, take_n(1), to_vector, sort>>}

\* apply(S, a, b, ...) and the same call with some of its arguments grouped
\* by compose, given as a temporary or as a named object
Groupings(S, sts) ==
    LET L == [j \in DOMAIN sts |-> Leaf("rvalue", "plain", sts[j])]
        n == Len(L)
    IN  {<<S>> \o L}
        \cup {<<S, Composition(c, L)>> : c \in {"lvalue", "rvalue"}}
        \cup {<<S, Composition("rvalue", <<L[1], Composition(c, SubSeq(L, 2, n - 1))>>), L[n]>> :
                c \in IF n >= 3 THEN {"lvalue", "rvalue"} ELSE {}}
        \cup {<<Composition(c, <<S, L[1]>>)>> \o SubSeq(L, 2, n) : c \in {"lvalue", "rvalue"}}
        \cup {<<Composition("rvalue", <<Composition(c, <<S>>), L[1]>>)>> \o SubSeq(L, 2, n) :
                c \in {"lvalue", "rvalue"}}

InitCompose ==
    /\ \E S \in SourceLeaves : \E sts \in ComposeStageLists : \E call \in Groupings(S, sts) :
          input = [kind |-> "call", call |-> call]
    /\ stages = <<>>
    /\ chain = <<>>
    /\ it = 0
    /\ pulls = 0
    /\ pc = "apply"
    /\ trace = <<>>
    /\ result = <<>>

\* apply(range, stages...) up to the call of make_chain: the compositions
\* among the arguments are taken apart and apply_no_compositions receives
\* their elements
Decompose ==
    /\ pc = "apply"
    /\ \E args \in {apply_to_decomposed([j \in DOMAIN input.call |-> Eval(input.call[j])])} :
          /\ input' = AsSource(args[1], input.call)
          /\ stages' = [j \in 1..(Len(args) - 1) |-> args[j + 1].x]
    /\ pc' = "make_chain"
    /\ UNCHANGED <<chain, it, pulls, trace, result>>

NextCompose == Decompose \/ MakeChain \/ ProcessComplete \/ Start \/ Feed \/ Stop \/ Finish

ComposeSpec == InitCompose /\ [][NextCompose]_vars

\* ------------------------------------------------------- the grouping runs
\* the runs of Spec whose first stage is group_by or map_group_by, over a
\* generator or a container handed over with std::move
InitGroup ==
    /\ Init
    /\ stages[1].kind \in {"group_by", "map_group_by"}
    /\ input.kind = "range" => input.how = "rvalue"

GroupSpec == InitGroup /\ [][Next]_vars

\* the runs through group_by alone, and through map_group_by alone
InitGroupBy == InitGroup /\ stages[1].kind = "group_by"

GroupBySpec == InitGroupBy /\ [][Next]_vars

InitMapGroupBy == InitGroup /\ stages[1].kind = "map_group_by"

MapGroupBySpec == InitMapGroupBy /\ [][Next]_vars

\* ---------------------------------------------------- the runs of one chain
\* the runs of Spec whose stages are filter, take_n, count, to<C>, max and
\* tee, over a generator or a container handed over with std::move
InitLinear ==
    /\ Init
    /\ stages[1].kind \notin {"group_by", "map_group_by"}
    /\ input.kind = "range" => input.how = "rvalue"

LinearSpec == InitLinear /\ [][Next]_vars

\* ------------------------------------------------- the runs through filter
\* the runs of Spec whose first stage is filter or tee, over every source
InitFilter ==
    /\ Init
    /\ stages[1].kind \in {"filter", "tee"}

FilterSpec == InitFilter /\ [][Next]_vars

\* ------------------------------------------------- the runs that own input
\* the runs of Spec over a generator or a container handed over with
\* std::move, through every pipeline
InitOwned ==
    /\ Init
    /\ input.kind = "range" => input.how = "rvalue"

OwnedSpec == InitOwned /\ [][Next]_vars

\* ------------------------------------------------ every kind of run together
\* over a container handed over with std::move: the runs with sub-chains
\* (tee alone; group_by and map_group_by by parity with a sub-chain that has
\* a budget), the runs with unwrap stages, and the runs that start with the
\* construction of a chain of sort, to<C>, take_n and count
InitLifecycle ==
    \/ /\ Init
       /\ input.kind = "range" /\ input.how = "rvalue"
       /\ \/ stages[1].kind = "tee"
          \/ /\ stages[1].kind \in {"group_by", "map_group_by"}
             /\ stages[1].key_getter = "mod2"
             /\ stages[1].composed_chain = <<take_n(1), to_vector>>
    \/ InitUnwrap /\ input.how = "rvalue"
    \/ /\ InitBuild
       /\ input.kind = "range" /\ input.how = "rvalue"
       /\ stages \in PlainPipelines \cup BridgePipelines

LifecycleSpec == InitLifecycle /\ [][NextBuild]_vars

TypeOK ==
    /\ pc \in {"apply", "make_chain", "error", "complete", "start", "loop", "end", "returned"}
    /\ it \in Nat
    /\ pulls \in Nat

\* --------------------------------------------------- observing the trace
\* positions in the trace of the calls named call that reached the stage at path
Where(path, call) ==
    {j \in DOMAIN trace : trace[j].path = path /\ trace[j].call = call}

\* position in the trace of the n-th such call
Nth(path, call, n) ==
    CHOOSE j \in Where(path, call) :
        Cardinality({q \in Where(path, call) : q <= j}) = n

\* the arguments of these calls, in call order
Args(path, call) ==
    LET s == SelectSeq(trace, LAMBDA e : e.path = path /\ e.call = call)
    IN [j \in DOMAIN s |-> s[j].arg]

Recv(path) == Args(path, "process_incremental")

Ended(path) == Cardinality(Where(path, "end"))

\* the first n elements of the source, as the driving loop hands them over
SourcePrefix(n) ==
    IF input.kind = "range"
    THEN [j \in 1..n |-> [v |-> input.elems[j], p |-> unwrap_input(input.how)]]
    ELSE [j \in 1..n |-> [v |-> input.begin + j - 1, p |-> "OwnedMovable"]]

Infinite == input.kind = "iota" /\ ~input.bounded

\* |S| for a finite source
SourceLen == IF input.kind = "range" THEN Len(input.elems) ELSE input.last - input.begin

\* ------------------------------------------------------------------ C1
\* C1: in apply(S, take_n(k), T) the stage after take_n receives exactly the
\* first min(k, |S|) elements of S, in source order, and at no time more than
\* k elements; at every position of a chain the stage after a take_n(k) has
\* received the first min(k, m) of the m elements take_n has received.
C1_TakeNPrefix ==
    /\ \A i \in DOMAIN stages :
          stages[i].kind = "take_n" =>
            /\ Len(Recv(<<i + 1>>)) <= stages[i].n
            /\ Recv(<<i + 1>>) =
                  Prefix(Recv(<<i>>), Min(stages[i].n, Len(Recv(<<i>>))))
    /\ (pc = "returned" /\ stages[1].kind = "take_n") =>
          Recv(<<2>>) =
            SourcePrefix(IF Infinite THEN stages[1].n ELSE Min(stages[1].n, SourceLen))

C1_Witness ==
    /\ pc = "returned"
    /\ stages[1].kind = "take_n" /\ stages[1].n = 2
    /\ input.kind = "range" /\ Len(input.elems) = 3
    /\ Len(Recv(<<2>>)) = 2

\* ------------------------------------------------------------------ C2
C2_Case == Infinite /\ Len(stages) = 2 /\ stages[1].kind = "take_n"

\* C2: apply(G, take_n(k), T) over an infinite generator terminates: the loop
\* never pulls more than k elements from G (none when k = 0), and the run
\* reaches the return of apply with exactly k pulls made and end() run.
C2_TakeNTerminates ==
    /\ [](C2_Case => pulls <= stages[1].n)
    /\ (C2_Case ~> (C2_Case /\ pc = "returned" /\ pulls = stages[1].n /\ Ended(<<1>>) = 1))

C2_Witness ==
    /\ C2_Case
    /\ pc = "returned"
    /\ stages[1].n = 2
    /\ pulls = 2
    /\ Ended(<<1>>) = 1
\* ------------------------------------------------------------------ C3
\* some stage of the driven chain has a completion condition of its own and
\* that condition holds
AnyStageDone == \E i \in DOMAIN chain : has_done(chain[i]) /\ impl_done(chain[i])

\* ... and it came to hold during an element of this run
AnyStageBecameDone ==
    \E i \in DOMAIN chain :
        has_done(chain[i]) /\ impl_done(chain[i]) /\ ~impl_done(make_impl(stages[i]))

\* C3: once any stage instance of the driven chain reports done() = true, no
\* further source element is fed to the first stage.
C3_AnyDoneStopsSource == [][AnyStageBecameDone => it' = it]_vars

\* ------------------------------------------------------------------ C4
\* the first position at or after i whose stage has its own completion
\* condition, 0 when there is none
FirstOwn(ch, i) ==
    LET own == {q \in i..Len(ch) : has_done(ch[q])}
    IN IF own = {} THEN 0 ELSE CHOOSE q \in own : \A o \in own : q <= o

\* C4: done() at a position whose stage has no completion condition is done()
\* at the next position, a stage with its own condition answers with it, the
\* position past the last stage answers false; so done() at a position is the
\* condition of the first stage at or after it that has one, and is true only
\* if some stage at or after the position has its own condition satisfied.
C4_DoneDelegates ==
    /\ ~done(chain, Len(chain) + 1)
    /\ \A i \in DOMAIN chain :
         /\ ~has_done(chain[i]) => (done(chain, i) <=> done(chain, i + 1))
         /\ has_done(chain[i]) => (done(chain, i) <=> impl_done(chain[i]))
         /\ done(chain, i) <=>
              (FirstOwn(chain, i) # 0 /\ impl_done(chain[FirstOwn(chain, i)]))
         /\ done(chain, i) =>
              \E q \in i..Len(chain) : has_done(chain[q]) /\ impl_done(chain[q])

C4_Witness ==
    /\ pc = "end"
    /\ it > 0
    /\ chain[1].kind = "filter"
    /\ chain[2].kind = "take_n" /\ chain[2].n = 0
    /\ done(chain, 1)

\* ------------------------------------------------------------------ C5
\* C5: apply calls end() on the first chain position exactly once per run, after
\* the last process_incremental call, on exhaustion of the source as well as on
\* an early stop by done(), also when done() holds before the first element.
C5_EndOnceAfterLast ==
    /\ Ended(<<1>>) = (IF pc = "returned" THEN 1 ELSE 0)
    /\ \A e \in Where(<<1>>, "end") :
         \A j \in Where(<<1>>, "process_incremental") : j < e
    /\ pc = "returned" => (Exhausted \/ done(chain, 1))

C5_Witness ==
    /\ pc = "returned"
    /\ input.kind = "range"
    /\ 0 < it /\ it < Len(input.elems)
    /\ Ended(<<1>>) = 1
    /\ Len(Recv(<<1>>)) = it
\* ------------------------------------------------- grouping, stated directly
KeyOf(x) == std_invoke(stages[1].key_getter, x.v)

\* the maximal runs of equal keys of xs, in order
RECURSIVE Runs(_)
Runs(xs) ==
    IF xs = <<>> THEN <<>>
    ELSE LET rest == Runs(Tail(xs))
         IN IF rest # <<>> /\ KeyOf(rest[1][1]) = KeyOf(Head(xs))
            THEN <<(<<Head(xs)>> \o rest[1])>> \o Tail(rest)
            ELSE <<(<<Head(xs)>>)>> \o rest

RECURSIVE Concat(_)
Concat(ss) == IF ss = <<>> THEN <<>> ELSE Head(ss) \o Concat(Tail(ss))

\* the elements of xs whose key is k, in order
WithKey(xs, k) == SelectSeq(xs, LAMBDA x : KeyOf(x) = k)

KeysOf(xs) == {KeyOf(xs[j]) : j \in DOMAIN xs}

FirstOcc(xs, k) == CHOOSE j \in DOMAIN xs : KeyOf(xs[j]) = k /\ \A q \in 1..(j - 1) : KeyOf(xs[q]) # k

ValuesOf(xs) == [j \in DOMAIN xs |-> xs[j].v]

NoOracle == [keys |-> <<>>, rev |-> FALSE]

RECURSIVE FeedAll(_, _)
FeedAll(ch, xs) ==
    IF xs = <<>> THEN ch
    ELSE FeedAll(process_incremental(ch, 1, <<>>, Head(xs), NoOracle).ch, Tail(xs))

\* the result of a fresh chain built from the descriptors, run alone over xs
RunChain(composed_chain, xs) ==
    end(FeedAll(make_chain(composed_chain), xs), 1, <<>>, NoOracle).ret

\* what the sub-chains of the model compute, stated without the engine
Expected(composed_chain, xs) ==
    IF composed_chain = <<count>> THEN Len(xs)
    ELSE IF composed_chain = <<to_vector>> THEN ValuesOf(xs)
    ELSE IF composed_chain = <<take_n(1), to_vector>> THEN ValuesOf(Prefix(xs, Min(1, Len(xs))))
    ELSE IF composed_chain = <<max>>
         THEN (IF xs = <<>> THEN <<>>
               ELSE <<CHOOSE m \in {xs[j].v : j \in DOMAIN xs} :
                        \A j \in DOMAIN xs : xs[j].v <= m>>)
    ELSE IF composed_chain = <<filter("odd"), count>>
         THEN Len(SelectSeq(xs, LAMBDA x : x.v % 2 = 1))
    ELSE RunChain(composed_chain, xs)

\* ------------------------------------------------------------------ C6
\* C6: the groups group_by emits to the next stage are the maximal consecutive
\* runs of equal keys of the input S it received, in order: group j is (key of
\* run j, result of a fresh sub-chain fed run j in order), adjacent groups have
\* different keys, the runs concatenate to S, and a key that comes back after
\* another key opens a new group.  Before end() the last run is still open.
C6_GroupByRuns ==
    stages[1].kind = "group_by" =>
      LET S == Recv(<<1>>)
          runs == Runs(S)
          emitted == Recv(<<2>>)
          n == IF pc = "returned" THEN Len(runs)
               ELSE IF runs = <<>> THEN 0 ELSE Len(runs) - 1
      IN /\ Len(emitted) = n
         /\ \A j \in 1..n :
              /\ emitted[j].v[1] = KeyOf(runs[j][1])
              /\ emitted[j].v[2] = RunChain(stages[1].composed_chain, runs[j])
              /\ emitted[j].v[2] = Expected(stages[1].composed_chain, runs[j])
         /\ \A j \in 1..(n - 1) : emitted[j].v[1] # emitted[j + 1].v[1]
         /\ \A g \in 1..Len(runs) : Recv(<<1, g, 1>>) = runs[g]
         /\ Concat(runs) = S
         /\ (pc = "returned" /\ Len(stages) = 2 /\ ~Infinite) => S = SourcePrefix(SourceLen)

C6_Witness ==
    /\ pc = "returned"
    /\ stages[1].kind = "group_by" /\ stages[1].key_getter = "identity"
    /\ stages[1].composed_chain = <<to_vector>>
    /\ input.kind = "range" /\ input.elems = <<1, 2, 1>>
    /\ ValuesOf(Recv(<<2>>)) = <<(<<1, <<1>> >>), (<<2, <<2>> >>), (<<1, <<1>> >>)>>

\* ------------------------------------------------------------------ C7
\* C7: on end(), group_by delivers the still-open group to the next stage exactly
\* once and only then calls end() of the next stage; on an empty input nothing
\* is delivered, end() of the next stage is still called, and the result is
\* that of the following stages over an empty stream.
C7_GroupByEnd ==
    stages[1].kind = "group_by" =>
      LET S == Recv(<<1>>)
          ends1 == Where(<<1>>, "end")
          late == {j \in Where(<<2>>, "process_incremental") : \E e \in ends1 : e < j}
      IN /\ Ended(<<2>>) = (IF pc = "returned" THEN 1 ELSE 0)
         /\ pc = "returned" =>
              /\ Cardinality(late) = (IF S = <<>> THEN 0 ELSE 1)
              /\ \A j \in late :
                   /\ trace[j].arg.v[1] = KeyOf(S[Len(S)])
                   /\ trace[j].arg.v[2] =
                        Expected(stages[1].composed_chain, Runs(S)[Len(Runs(S))])
              /\ \A e \in Where(<<2>>, "end") :
                   /\ \A j \in Where(<<2>>, "process_incremental") : j < e
                   /\ \A f \in ends1 : f < e
              /\ S = <<>> =>
                   /\ Recv(<<2>>) = <<>>
                   /\ result = <<RunChain(SubSeq(stages, 2, Len(stages)), <<>>)>>
                   /\ result = <<(<<>>)>>

C7_Witness ==
    /\ pc = "returned"
    /\ stages[1].kind = "group_by"
    /\ Len(Recv(<<1>>)) = 3
    /\ Len(Runs(Recv(<<1>>))) = 2
    /\ \E j \in Where(<<2>>, "process_incremental") : \E e \in Where(<<1>>, "end") : e < j
\* ------------------------------------------------------------------ C8
\* the (key, result) pairs map_group_by has sent to the next stage
Pairs == {Recv(<<2>>)[j].v : j \in DOMAIN Recv(<<2>>)}

MadeSubchains == {j \in DOMAIN trace : trace[j].call = "make_subchain_for_input"}

\* C8 as stated: for every finite input S the emitted pairs are one pair per
\* distinct key of S, (k, result of the sub-chain of k over the elements of S
\* with key k), so {(k, number of elements with key k)} for sub-chain count().
C8_OnePairPerKey ==
    (stages[1].kind = "map_group_by" /\ pc = "returned") =>
      LET S == Recv(<<1>>)
      IN /\ Len(Recv(<<2>>)) = Cardinality(KeysOf(S))
         /\ Pairs = {<<k, Expected(stages[1].composed_chain, WithKey(S, k))>> : k \in KeysOf(S)}

\* C8, amended: map_group_by creates exactly one sub-chain per distinct key, on
\* the first occurrence of the key, and feeds every element into the sub-chain
\* of its key in input order; nothing is emitted before end(); the pairs
\* emitted have pairwise distinct keys, each is (k, result of the sub-chain of
\* k over all elements with key k), and they cover every distinct key unless
\* the next stage reports done() during end().
C8_OnePairPerKeyUntilDone ==
    stages[1].kind = "map_group_by" =>
      LET S == Recv(<<1>>)
          emitted == Recv(<<2>>)
      IN /\ Cardinality(MadeSubchains) = Cardinality(KeysOf(S))
         /\ \A k \in KeysOf(S) :
              /\ Cardinality(Where(<<1, k>>, "make_subchain_for_input")) = 1
              /\ Nth(<<1, k>>, "make_subchain_for_input", 1) =
                   Nth(<<1>>, "key_getter", FirstOcc(S, k)) + 1
              /\ Recv(<<1, k, 1>>) = WithKey(S, k)
         /\ pc # "returned" => emitted = <<>>
         /\ \A a, b \in DOMAIN emitted : a # b => emitted[a].v[1] # emitted[b].v[1]
         /\ \A j \in DOMAIN emitted :
              /\ emitted[j].v[1] \in KeysOf(S)
              /\ emitted[j].v[2] = Expected(stages[1].composed_chain, WithKey(S, emitted[j].v[1]))
         /\ pc = "returned" => (Len(emitted) = Cardinality(KeysOf(S)) \/ done(chain, 2))

C8_Witness ==
    /\ pc = "returned"
    /\ stages[1].kind = "map_group_by" /\ stages[1].key_getter = "identity"
    /\ stages[1].composed_chain = <<count>>
    /\ input.kind = "range" /\ input.elems = <<1, 2, 1>>
    /\ Pairs = {<<1, 2>>, <<2, 1>>}

\* ------------------------------------------------------------------ C9
\* C9 as stated: on end(), whatever the next stages are, every key of the map
\* gets its sub-chain's end() called once and one (key, result) sent to the
\* next stage, and after all keys end() of the next stage is called once.
C9_EndVisitsEveryKey ==
    (stages[1].kind = "map_group_by" /\ pc = "returned") =>
      /\ \A k \in KeysOf(Recv(<<1>>)) :
           /\ Ended(<<1, k, 1>>) = 1
           /\ Cardinality({j \in Where(<<2>>, "process_incremental") : trace[j].arg.v[1] = k}) = 1
      /\ Ended(<<2>>) = 1

\* the keys whose sub-chain has been ended
Visited == {k \in KeysOf(Recv(<<1>>)) : Ended(<<1, k, 1>>) > 0}

\* C9, amended: on end(), map_group_by iterates the map for as long as done()
\* of the next stage is false: every key it visits gets its sub-chain's end()
\* called once, directly followed by one (key, result) sent to the next stage;
\* the keys left when done() becomes true get neither; then end() of the next
\* stage is called exactly once, after all of that.
C9_EndVisitsKeysUntilDone ==
    stages[1].kind = "map_group_by" =>
      LET keys == KeysOf(Recv(<<1>>))
          sent(k) == {j \in Where(<<2>>, "process_incremental") : trace[j].arg.v[1] = k}
      IN /\ Ended(<<2>>) = (IF pc = "returned" THEN 1 ELSE 0)
         /\ \A k \in keys :
              /\ Ended(<<1, k, 1>>) <= 1
              /\ Cardinality(sent(k)) = Ended(<<1, k, 1>>)
              /\ \A e \in Where(<<1, k, 1>>, "end") :
                   /\ \A f \in Where(<<1>>, "end") : f < e
                   /\ \A j \in Where(<<1, k, 1>>, "process_incremental") : j < e
                   /\ \A j \in sent(k) :
                        /\ e < j
                        /\ \A q \in (e + 1)..(j - 1) : Len(trace[q].path) = 3
                   /\ \A f \in Where(<<2>>, "end") : e < f
              /\ \A j \in sent(k) : \A f \in Where(<<2>>, "end") : j < f
         /\ pc = "returned" =>
              Cardinality(Visited) =
                 (IF stages[2].kind = "take_n"
                  THEN Min(stages[2].n, Cardinality(keys))
                  ELSE Cardinality(keys))
         /\ pc # "returned" => Visited = {}

C9_Witness ==
    /\ pc = "returned"
    /\ stages[1].kind = "map_group_by"
    /\ stages[2].kind = "take_n" /\ stages[2].n = 1
    /\ Cardinality(KeysOf(Recv(<<1>>))) = 2
    /\ Cardinality(Visited) = 1
    /\ Ended(<<2>>) = 1

\* ------------------------------------------------------------------ C10
TeeAt == Len(stages)

\* C10: tee hands each incoming element to every sub-chain, in the order
\* s1..sN, as a read-only view of the element, before it accepts the next
\* element; on end() it passes on the record (r1..rN), ri the final value of
\* sub-chain i, in declaration order.
C10_TeeFeedsAllInOrder ==
    stages[TeeAt].kind = "tee" =>
      LET i == TeeAt
          T == Recv(<<i>>)
          N == Len(stages[i].subchains)
          pi == "process_incremental"
      IN /\ \A s \in 1..N :
              /\ Recv(<<i, s, 1>>) = [j \in DOMAIN T |-> as_const(T[j])]
              /\ \A j \in DOMAIN T :
                   /\ Nth(<<i>>, pi, j) < Nth(<<i, s, 1>>, pi, j)
                   /\ s < N => Nth(<<i, s, 1>>, pi, j) < Nth(<<i, s + 1, 1>>, pi, j)
                   /\ j < Len(T) => Nth(<<i, s, 1>>, pi, j) < Nth(<<i>>, pi, j + 1)
         /\ Where(<<i + 1>>, "process_complete") # {} <=> pc = "returned"
         /\ pc = "returned" =>
              /\ Args(<<i + 1>>, "process_complete") =
                   <<[v |-> result[1], p |-> "OwnedMovable"]>>
              /\ Len(result[1]) = N
              /\ \A s \in 1..N :
                   /\ Args(<<i, s, Len(stages[i].subchains[s]) + 1>>, "process_complete")
                        = <<[v |-> result[1][s], p |-> "OwnedMovable"]>>
                   /\ result[1][s] = Expected(stages[i].subchains[s],
                                           [j \in DOMAIN T |-> as_const(T[j])])

C10_Witness ==
    /\ pc = "returned"
    /\ stages = <<tee(<<(<<count>>), (<<max>>)>>)>>
    /\ input.kind = "range" /\ input.how = "rvalue" /\ input.elems = <<2, 3, 1>>
    /\ result = <<(<<3, <<3>> >>)>>
    /\ Len(Recv(<<1, 2, 1>>)) = 3

\* ------------------------------------------------------------------ C11
\* iterate_like over the range xs: the callback on each element until done()
RECURSIVE iterate_range(_, _)
iterate_range(ch, xs) ==
    IF xs = <<>> \/ done(ch, 1) THEN ch
    ELSE iterate_range(process_incremental(ch, 1, <<>>, Head(xs), NoOracle).ch, Tail(xs))

\* apply(xs, stages...) run alone: build the chain, iterate, return end()
apply(xs, composed) ==
    end(iterate_range(make_chain(composed), xs), 1, <<>>, NoOracle).ret

InnerValues(xs) == Concat([j \in DOMAIN xs |-> xs[j].v[Len(xs[j].v)].v])

\* the values in the last position of the emissions es
LastValues(es) == [j \in DOMAIN es |-> es[j].v[Len(es[j].v)].v]

\* every emission keeps the arity and the prefix values of the bundle, shows an
\* owned prefix position (T or T&&) as const T& and a borrowed one as declared
SafePrefix(b, es) ==
    \A j \in DOMAIN es :
        /\ Len(es[j].v) = Len(b)
        /\ \A I \in 1..(Len(b) - 1) :
              /\ es[j].v[I].v = b[I].v
              /\ es[j].v[I].p # "OwnedMovable"
              /\ es[j].v[I].p =
                    IF b[I].p \in {"Owned", "OwnedMovable"} THEN "BorrowedImmutable"
                    ELSE b[I].p

\* C12 as stated: flatten() in safe mode shows every owned prefix position as
\* BorrowedImmutable in every emission, keeps borrowed prefix positions, and
\* emits one bundle per inner element, in order.
C12_FlattenSafeAllEmitted ==
    (stages[1].kind = "flatten" /\ ~stages[1].PreserveRvalueRefs) =>
      /\ SafePrefix(input.elems[1], Recv(<<2>>))
      /\ LastValues(Recv(<<2>>)) = InnerValues(Recv(<<1>>))

\* C12, amended: the same, with one emission per inner element, in order,
\* for as long as the next stage does not report done(); the emissions stop
\* with the element during which the next stage became done.
C12_FlattenSafeUntilDone ==
    (stages[1].kind = "flatten" /\ ~stages[1].PreserveRvalueRefs) =>
      LET all == InnerValues(Recv(<<1>>))
          n == IF stages[2].kind = "take_n" THEN Min(stages[2].n, Len(all)) ELSE Len(all)
      IN /\ SafePrefix(input.elems[1], Recv(<<2>>))
         /\ LastValues(Recv(<<2>>)) = Prefix(all, n)

C12_Witness ==
    /\ pc = "returned"
    /\ stages = <<flatten, to_vector>>
    /\ Len(input.elems) = 1
    /\ Len(input.elems[1]) = 3
    /\ input.elems[1][1].p = "OwnedMovable"
    /\ input.elems[1][2].p = "Owned"
    /\ Len(input.elems[1][3].v) = 3
    /\ Len(Recv(<<2>>)) = 3
    /\ \A j \in 1..3 : Recv(<<2>>)[j].v[1].p = "BorrowedImmutable"

\* ------------------------------------------------------------------ C13
Finalized == pulls > 0 /\ stages = <<>>

\* r is w with every reference w holds directly turned into an owned value, at
\* every depth of tuple-likes, kinds and arities kept; what stands in the place
\* of a reference marker is not constrained here
RECURSIVE OwnedCopy(_, _)
OwnedCopy(w, r) ==
    \/ w.ty.k = "reference_wrapper"
    \/ /\ w.ty.k = "plain"
       /\ r = [ref |-> "Owned", ty |-> w.ty]
    \/ /\ is_args_or_pair_or_tuple(w.ty)
       /\ r.ref = "Owned"
       /\ r.ty.k = w.ty.k
       /\ DOMAIN r.ty.elems = DOMAIN w.ty.elems
       /\ \A j \in DOMAIN w.ty.elems : OwnedCopy(w.ty.elems[j], r.ty.elems[j])

\* C13: finalize of a bundle, pair or tuple turns every directly-held
\* reference (T&, const T&, T&&), at every nesting depth of bundles, pairs and
\* tuples, into an owned value and keeps arity, positions and the kind of each
\* tuple-like; a result that is no tuple-like is returned as an owned value.
C13_FinalizeOwnsReferences ==
    Finalized =>
      IF is_args_or_pair_or_tuple(input.ty)
      THEN OwnedCopy(input, result)
      ELSE result = [ref |-> "Owned", ty |-> input.ty]

C13_Witness ==
    /\ Finalized
    /\ pulls = 1
    /\ input.ty.k = "args"
    /\ input.ty.elems[1].ref = "BorrowedMutable"
    /\ input.ty.elems[1].ty.k = "pair"
    /\ input.ty.elems[1].ty.elems[1].ref = "OwnedMovable"
    /\ input.ty.elems[1].ty.elems[2].ref = "BorrowedImmutable"
    /\ result.ty.elems[1] =
          [ref |-> "Owned",
           ty |-> tuple_like("pair", <<[ref |-> "Owned", ty |-> plain(1)],
                                       [ref |-> "Owned", ty |-> plain(MaxK)]>>)]

\* ------------------------------------------------------------------ C14
\* at every place of w, reached through tuple-likes only, where w holds a
\* reference marker, r holds a reference to the referent, the referent as it is
RECURSIVE MarkersUnwrapped(_, _)
MarkersUnwrapped(w, r) ==
    IF w.ty.k = "reference_wrapper"
    THEN /\ r.ref = (IF w.ty.const THEN "BorrowedImmutable" ELSE "BorrowedMutable")
         /\ r.ty = w.ty.of
    ELSE is_args_or_pair_or_tuple(w.ty) =>
           \A j \in DOMAIN w.ty.elems : MarkersUnwrapped(w.ty.elems[j], r.ty.elems[j])

\* C14: a std::reference_wrapper that is itself the result is returned as it
\* is; one held inside a bundle, pair or tuple, at any depth, is replaced by a
\* reference to its referent, whose own substructure, the references it holds
\* included, is left as it is.
C14_MarkersPreservedOrUnwrapped ==
    Finalized =>
      IF input.ty.k = "reference_wrapper"
      THEN result = [ref |-> "Owned", ty |-> input.ty]
      ELSE MarkersUnwrapped(input, result)

C14_Witness ==
    /\ Finalized
    /\ pulls = 1
    /\ input.ty.k = "tuple"
    /\ input.ty.elems[1].ty.k = "reference_wrapper"
    /\ ~input.ty.elems[1].ty.const
    /\ input.ty.elems[1].ty.of.k = "pair"
    /\ input.ty.elems[1].ty.of.elems[1].ref = "BorrowedMutable"
    /\ input.ty.elems[1].ty.of.elems[2].ref = "OwnedMovable"
    /\ result.ty.elems[1] = [ref |-> "BorrowedMutable", ty |-> input.ty.elems[1].ty.of]

\* ------------------------------------------------------------------ C15
\* v, a position of a tuple-like, is owned and holds only owned positions
RECURSIVE OwnedThroughout(_)
OwnedThroughout(v) ==
    /\ v.ref = "Owned"
    /\ v.ty.k # "reference_wrapper"
    /\ is_args_or_pair_or_tuple(v.ty) =>
          \A j \in DOMAIN v.ty.elems : OwnedThroughout(v.ty.elems[j])

\* the value v holds no borrow at any depth
HoldsNoBorrow(v) ==
    is_args_or_pair_or_tuple(v.ty) => \A j \in DOMAIN v.ty.elems : OwnedThroughout(v.ty.elems[j])

\* C15: finalize returns a value that holds no borrow at any depth unchanged
\* (same shape, same provenance of every position, same contents), as an
\* owned value; so finalizing a fully owned result of finalize once more
\* returns that result.
C15_FinalizeIdempotentOnOwned ==
    (Finalized /\ HoldsNoBorrow(input)) =>
      /\ result.ref = "Owned"
      /\ result.ty = input.ty
      /\ pulls > 1 => result = input

C15_Witness ==
    /\ Finalized
    /\ pulls > 1
    /\ input.ty.k = "args"
    /\ Len(input.ty.elems) = 2
    /\ input.ty.elems[1].ty.k = "tuple"
    /\ HoldsNoBorrow(input)
    /\ result = input

\* ------------------------------------------------------------------ C16
\* the filter stages of the pipeline: path of the stage, its predicate
Filters ==
    {[path |-> <<i>>, pred |-> stages[i].pred] :
        i \in {j \in DOMAIN stages : stages[j].kind = "filter"}}
    \cup UNION {
         UNION {
           {[path |-> <<i, s, j>>, pred |-> stages[i].subchains[s][j].pred] :
               j \in {q \in DOMAIN stages[i].subchains[s] :
                          stages[i].subchains[s][q].kind = "filter"}} :
           s \in DOMAIN stages[i].subchains} :
         i \in {j \in DOMAIN stages : stages[j].kind = "tee"}}

After(path) == [path EXCEPT ![Len(path)] = @ + 1]

\* C16: filter(p) hands to the next stage exactly the elements it received for
\* which p is true, unchanged (same value, same provenance) and in order, and
\* calls p once per element, on a read-only view of it; so filter(p), count()
\* over a finite S returns the number of elements of S that satisfy p.
C16_FilterForwardsMatching ==
    /\ \A f \in Filters :
          /\ Recv(After(f.path)) = SelectSeq(Recv(f.path), LAMBDA x : Pred(f.pred, x.v))
          /\ Args(f.path, "pred") = [j \in DOMAIN Recv(f.path) |-> as_const(Recv(f.path)[j])]
    /\ (pc = "returned" /\ stages = <<filter("odd"), count>>) =>
          /\ Recv(<<1>>) = SourcePrefix(SourceLen)
          /\ result = <<Cardinality({j \in 1..SourceLen : SourcePrefix(SourceLen)[j].v % 2 = 1})>>

C16_Witness ==
    /\ pc = "returned"
    /\ stages = <<filter("odd"), count>>
    /\ input.kind = "range" /\ input.how = "ref" /\ input.elems = <<1, 2, 3>>
    /\ Recv(<<2>>) = <<[v |-> 1, p |-> "BorrowedMutable"], [v |-> 3, p |-> "BorrowedMutable"]>>
    /\ result = <<2>>

\* ------------------------------------------------------------------ C17
\* the to<vector> stages of the pipeline: path of the stage, its instance
Tos ==
    {[path |-> <<i>>, impl |-> chain[i]] :
        i \in {j \in DOMAIN chain : chain[j].kind = "to"}}
    \cup UNION {
         UNION {
           {[path |-> <<i, s, j>>, impl |-> chain[i].chains[s][j]] :
               j \in {q \in DOMAIN chain[i].chains[s] : chain[i].chains[s][q].kind = "to"}} :
           s \in DOMAIN chain[i].chains} :
         i \in {j \in DOMAIN chain : chain[j].kind = "tee"}}

\* C17: to<vector> starts from an empty container, inserts each element it
\* receives at the end, in arrival order, and passes the container on exactly
\* once, on end(); the container then lists exactly the stream the stage
\* received, and is empty for an empty stream.
C17_ToCollectsInOrder ==
    /\ pc = "start" => \A t \in Tos : t.impl.out = <<>>
    /\ \A t \in Tos :
          /\ t.impl.out = ValuesOf(Recv(t.path))
          /\ Ended(t.path) <= 1
          /\ Args(After(t.path), "process_complete") =
                IF Ended(t.path) = 1
                THEN <<[v |-> ValuesOf(Recv(t.path)), p |-> "OwnedMovable"]>>
                ELSE <<>>
          /\ \A j \in Where(t.path, "process_incremental") :
                \A e \in Where(t.path, "end") : j < e
    /\ (pc = "returned" /\ stages[Len(stages)].kind = "to") =>
          /\ Ended(<<Len(stages)>>) = 1
          /\ result = <<ValuesOf(Recv(<<Len(stages)>>))>>
          /\ Recv(<<Len(stages)>>) = <<>> => result = <<(<<>>)>>

C17_Witness ==
    /\ pc = "returned"
    /\ stages = <<to_vector>>
    /\ input.kind = "range" /\ input.elems = <<3, 1, 2>>
    /\ result = <<(<<3, 1, 2>>)>>
    /\ Len(Args(<<2>>, "process_complete")) = 1

C17_WitnessEmpty ==
    /\ pc = "returned"
    /\ stages = <<filter("odd"), to_vector>>
    /\ input.kind = "range" /\ input.elems = <<2, 2>>
    /\ result = <<(<<>>)>>
\* --------------------------------------------------------------------- C18
\* the provenance of a bundle position in the three kinds of the
\* specification: a position held by value and a T&& position are both
\* OwnedMovable
Provenance(p) == IF p = "Owned" THEN "OwnedMovable" ELSE p

\* y is the bundle (x_I1 .. x_Im) of the bundle x
Swizzled(Is, x, y) ==
    /\ Len(y.v) = Len(Is)
    /\ \A m \in DOMAIN Is :
          /\ y.v[m].v = x.v[Is[m] + 1].v
          /\ Provenance(y.v[m].p) = Provenance(x.v[Is[m] + 1].p)

SwizzleThenCount ==
    /\ stages[1].kind = "swizzle"
    /\ \A i \in 2..Len(stages) : stages[i].kind \in {"take_n", "count"}
    /\ stages[Len(stages)].kind = "count"

IsBundle == input.value_type.k = "args"

\* N, the number of positions of the incoming bundle
Arity == Len(input.value_type.Ts)

MaxIndex(Is) == CHOOSE a \in {Is[m] : m \in DOMAIN Is} : \A m \in DOMAIN Is : Is[m] <= a

Distinct(Is) == Cardinality({Is[m] : m \in DOMAIN Is}) = Len(Is)

\* construction failed: there is no chain and nothing ran
NothingBuilt ==
    /\ chain = <<>>
    /\ trace = <<>>
    /\ result = <<>>
    /\ it = 0
    /\ pulls = 0

\* C19 as stated: swizzle<I1..Im> binds to an N-position bundle exactly when
\* the indices are pairwise distinct and N >= max(I1..Im); otherwise
\* construction fails, no chain is built and nothing is executed.
C19_SwizzleBindsIffArityGeMax ==
    (pc # "make_chain" /\ SwizzleThenCount /\ stages[1].Is # <<>>) =>
      /\ pc # "error" <=>
            (IsBundle /\ Distinct(stages[1].Is) /\ Arity >= MaxIndex(stages[1].Is))
      /\ pc = "error" => NothingBuilt

\* C19, amended: swizzle<I1..Im> binds to an N-position bundle exactly when
\* there is at least one index, the indices are pairwise distinct and every
\* index is below N (indices count from 0, so N >= max(I1..Im) + 1);
\* otherwise construction fails, no chain is built and nothing is executed.
C19_SwizzleBindsIffIndicesBelowArity ==
    (pc # "make_chain" /\ SwizzleThenCount) =>
      /\ pc # "error" <=>
            /\ IsBundle
            /\ stages[1].Is # <<>>
            /\ Distinct(stages[1].Is)
            /\ Arity >= MaxIndex(stages[1].Is) + 1
      /\ pc = "error" => NothingBuilt

\* swizzle<0,2> was offered two-position bundles and construction failed
C19_Witness ==
    /\ pc = "error"
    /\ stages = <<swizzle(<<0, 2>>), count>>
    /\ IsBundle
    /\ Arity = 2
    /\ input.elems # <<>>

\* --------------------------------------------------------------------- C20
\* a stage with incremental output is directly followed by a stage with
\* complete input
IncrementalIntoComplete ==
    \E i \in 1..(Len(stages) - 1) :
        has_incremental_output(stages[i]) /\ has_complete_input(stages[i + 1])

\* C20: when a stage with Incremental output is directly followed by a stage
\* with Complete input, chain construction fails: no stage instance is ever
\* created and nothing is executed.
C20_IncrementalIntoCompleteFails ==
    IncrementalIntoComplete =>
      /\ pc \in {"make_chain", "error"}
      /\ NothingBuilt

\* take_n directly before sort, over elements that sort could take as a whole
C20_Witness ==
    /\ pc = "error"
    /\ stages = <<take_n(1), sort>>
    /\ input.how = "rvalue"
    /\ input.value_type = range_t(int_t)
    /\ input.elems # <<>>

\* --------------------------------------------------------------------- C21
\* stage i has incremental input and what is in front of it (the source, or
\* stage i - 1) has complete output
BridgeAt(i) ==
    /\ has_incremental_input(stages[i])
    /\ i = 1 \/ has_complete_output(stages[i - 1])

RECURSIVE Iterable(_)

\* the complete output of stage i (of the source for i = 0) is a container or
\* a generator: a range source also behind std::ref, the container of to<C>,
\* and what sort hands on if it was handed one
Iterable(i) ==
    IF i = 0 THEN input.kind \in {"range", "iota"}
    ELSE CASE stages[i].kind = "to" -> TRUE
           [] stages[i].kind = "sort" -> Iterable(i - 1)
           [] OTHER -> FALSE

RECURSIVE Handed(_)

\* the values of the complete output handed to position i, in iteration order
Handed(i) ==
    IF i = 1
    THEN (IF input.kind = "range" THEN input.elems
          ELSE [j \in 1..(IF Infinite THEN MaxPull ELSE SourceLen) |-> input.begin + j - 1])
    ELSE IF stages[i - 1].kind = "sort" THEN std_sort(Handed(i - 1))
    ELSE [j \in DOMAIN Recv(<<i - 1>>) |-> Recv(<<i - 1>>)[j].v]

\* the number of elements after which done() at position i is true: done() is
\* the condition of the first take_n at or after i; it spends its budget on
\* the elements if they reach it one by one, and otherwise keeps it
BridgeLen(i) ==
    IF FirstOwn(stages, i) = 0 THEN Len(Handed(i))
    ELSE IF \A m \in i..(FirstOwn(stages, i) - 1) : has_incremental_output(stages[m])
    THEN Min(stages[FirstOwn(stages, i)].n, Len(Handed(i)))
    ELSE IF stages[FirstOwn(stages, i)].n = 0 THEN 0
    ELSE Len(Handed(i))

\* C21: a complete output in front of a stage with incremental input must be
\* iterable (a container or generator, also behind a reference marker), or
\* construction fails; when it is, the stage receives the elements of the
\* complete output in iteration order up to the one after which done() at its
\* position is true, and then its end() is called.
C21_BridgeIteratesUntilDone ==
    /\ \A i \in DOMAIN stages :
          (BridgeAt(i) /\ ~Iterable(i - 1)) =>
             (pc \in {"make_chain", "error"} /\ NothingBuilt)
    /\ pc = "returned" =>
          \A i \in DOMAIN stages :
             BridgeAt(i) =>
               /\ [j \in DOMAIN Recv(<<i>>) |-> Recv(<<i>>)[j].v]
                     = Prefix(Handed(i), BridgeLen(i))
               /\ Ended(<<i>>) = 1
               /\ \A a \in Where(<<i>>, "process_incremental"), b \in Where(<<i>>, "end") :
                     a < b

\* the container of to<vector> held two elements and take_n(1) behind it took one
C21_Witness ==
    /\ pc = "returned"
    /\ stages = <<to_vector, take_n(1), count>>
    /\ Len(Recv(<<1>>)) = 2
    /\ Len(Recv(<<2>>)) = 1
    /\ Ended(<<2>>) = 1

\* --------------------------------------------------------------------- C22
\* the stage lists of the sub-chains a stage descriptor holds
SubLists(st) ==
    CASE st.kind = "tee" -> {st.subchains[q] : q \in DOMAIN st.subchains}
      [] st.kind \in {"group_by", "map_group_by"} -> {st.composed_chain}
      [] OTHER -> {}

\* the stage list of the chain and those of its sub-chains
StageLists == {stages} \cup UNION {SubLists(stages[i]) : i \in DOMAIN stages}

\* the sub-chains a stage instance holds
SubInstances(impl) ==
    CASE impl.kind \in {"tee", "map_group_by"} -> {impl.chains[q] : q \in DOMAIN impl.chains}
      [] impl.kind = "group_by" ->
            {impl.current_group[q].second : q \in DOMAIN impl.current_group}
      [] OTHER -> {}

BuiltChains == {chain} \cup UNION {SubInstances(chain[i]) : i \in DOMAIN chain}

\* the stage list of the chain or sub-chain a call with this path went to
ListAt(path) ==
    IF Len(path) = 1 THEN stages
    ELSE IF stages[path[1]].kind = "tee" THEN stages[path[1]].subchains[path[2]]
    ELSE stages[path[1]].composed_chain

\* C22: a stage list, of the chain or of a sub-chain, whose last stage has
\* incremental output stops construction; every chain and sub-chain that
\* exists ends in a stage with complete output, and every end() call goes to
\* a stage, never to the position past the last one.
C22_LastStageComplete ==
    /\ (\E l \in StageLists : l # <<>> /\ has_incremental_output(l[Len(l)])) =>
          (pc \in {"make_chain", "error"} /\ NothingBuilt)
    /\ \A c \in BuiltChains : c # <<>> => has_complete_output(c[Len(c)])
    /\ \A j \in DOMAIN trace :
          trace[j].call = "end" =>
             trace[j].path[Len(trace[j].path)] \in DOMAIN ListAt(trace[j].path)

\* take_n as the only stage: construction failed
C22_Witness ==
    /\ pc = "error"
    /\ stages = <<take_n(1)>>
    /\ input.kind = "range"
    /\ input.how = "rvalue"
    /\ input.elems # <<>>

\* --------------------------------------------------------------------- C23
\* sort stages only, with an optional count at the end: nothing but sort can
\* stop the construction of such a chain over a container
SortOnly ==
    /\ input.kind = "range"
    /\ stages[1].kind = "sort"
    /\ \A i \in 2..Len(stages) :
          stages[i].kind = "sort" \/ (i = Len(stages) /\ stages[i].kind = "count")

\* the provenance with which the whole source reaches the first stage
WholeProvenance == Provenance(unwrapped_input_t(RangeType(input)).ref)

\* C23 as stated: sort binds only when the whole source reaches it as
\* BorrowedMutable; for BorrowedImmutable and for OwnedMovable chain
\* construction fails.
C23_SortBindsOnlyBorrowedMutable ==
    (pc # "make_chain" /\ SortOnly) =>
        (pc # "error" <=> WholeProvenance = "BorrowedMutable")

\* C23, amended: sort binds when the whole source reaches it as
\* BorrowedMutable (std::ref) or as OwnedMovable (std::move, or the container
\* a preceding to<C> returns); construction fails, and nothing is built, when
\* it reaches it as BorrowedImmutable.
C23_SortBindsUnlessBorrowedImmutable ==
    /\ (pc # "make_chain" /\ SortOnly) =>
          /\ pc # "error" <=> WholeProvenance \in {"BorrowedMutable", "OwnedMovable"}
          /\ pc = "error" => NothingBuilt
    /\ (pc # "make_chain" /\ input.kind = "range" /\ stages = <<to_vector, sort>>) =>
          pc # "error"

\* a container handed over with std::move was sorted
C23_Witness ==
    /\ pc = "returned"
    /\ stages = <<sort>>
    /\ input.how = "rvalue"
    /\ WholeProvenance = "OwnedMovable"
    /\ Len(input.elems) >= 2
    /\ trace # <<>>
    /\ trace[1].call = "process_complete"
    /\ trace[1].arg.v # std_sort(trace[1].arg.v)

\* --------------------------------------------------------------------- C24
\* what the callable of the call e of args_invoke received is the argument x:
\* the same values, position by position for a bundle
ReceivedValues(e) ==
    IF input.value_type.k = "args"
    THEN /\ Len(e.arg.v) = Len(input.x.v)
         /\ \A m \in DOMAIN input.x.v : e.arg.v[m].v = input.x.v[m].v
    ELSE /\ Len(e.arg.v) = 1
         /\ e.arg.v[1].v = input.x.v

\* the bundle of the call e was reached by const reference
SharedView(e) == e.arg.p = "BorrowedImmutable"

\* the bundle of the call e was reached as an rvalue
ConsumingMove(e) == e.arg.p \in {"Owned", "OwnedMovable"}

\* C24: a callable invoked with a bundle reached by shared (const) view
\* receives every position as BorrowedImmutable, whatever the position's own
\* provenance; invoked with a bundle reached by consuming move it receives
\* every position with the position's own provenance (an owned value as
\* movable, a mutable borrow as mutable, an immutable borrow as immutable); a
\* non-bundle argument is received with the provenance it was passed with.
C24_InvokeProvenance ==
    \A j \in DOMAIN trace :
        trace[j].call \in {"pred", "f"} =>
          /\ ReceivedValues(trace[j])
          /\ IF input.value_type.k = "args"
             THEN /\ SharedView(trace[j]) =>
                        \A m \in DOMAIN input.x.v :
                            trace[j].arg.v[m].p = "BorrowedImmutable"
                  /\ ConsumingMove(trace[j]) =>
                        \A m \in DOMAIN input.x.v :
                            trace[j].arg.v[m].p = Provenance(input.x.v[m].p)
                  /\ SharedView(trace[j]) \/ ConsumingMove(trace[j])
             ELSE Provenance(trace[j].arg.v[1].p) = Provenance(trace[j].arg.p)

\* a bundle (value, mutable borrow, rvalue) handed on by move: the predicate
\* saw it by shared view, the function consumed it
C24_Witness ==
    /\ pc = "returned"
    /\ input.value_type = args_t(<<"Owned", "BorrowedMutable", "OwnedMovable">>)
    /\ input.x.p = "OwnedMovable"
    /\ Len(trace) = 2
    /\ SharedView(trace[1])
    /\ ConsumingMove(trace[2])
    /\ trace[2].arg.v[2].p = "BorrowedMutable"

\* --------------------------------------------------------------------- C25
\* the stage descriptor and the stage instance a call with this path went to
StageAt(path) == ListAt(path)[path[Len(path)]]

ImplAt(path) ==
    IF Len(path) = 1 THEN chain[path[1]]
    ELSE chain[path[1]].chains[path[2]][path[3]]

IsUnwrap(st) == st.kind \in {"unwrap_optional", "unwrap_error_or"}

\* the positions in the trace at which an unwrap stage was handed an empty
\* optional or an error
EmptySeen ==
    {j \in DOMAIN trace :
        /\ trace[j].call = "process_incremental"
        /\ IsUnwrap(StageAt(trace[j].path))
        /\ ~trace[j].arg.v.ok}

\* the path of the stage behind the stage at path
NextPath(path) == [path EXCEPT ![Len(path)] = @ + 1]

\* C25: once an unwrap_optional / unwrap_error_or stage has received an empty
\* or error carrier, its done() is true from then on and it never again calls
\* process_incremental on the next stage during the run, wherever the stage
\* sits in the chain or a sub-chain.
C25_UnwrapStopsForwarding ==
    \A j \in EmptySeen :
        /\ impl_done(ImplAt(trace[j].path))
        /\ \A m \in DOMAIN trace :
              (m > j /\ trace[m].path = NextPath(trace[j].path)) =>
                  trace[m].call # "process_incremental"

\* the part of C25 the code keeps: done() of the stage stays true
C25_UnwrapStaysDone ==
    \A j \in EmptySeen : impl_done(ImplAt(trace[j].path))

\* --------------------------------------------------------------------- C26
\* the unwrap stage at path was handed an empty optional or an error
SawEmpty(path) == \E m \in EmptySeen : trace[m].path = path

\* the value handed to the position past the last stage of the chain or
\* sub-chain the stage at path belongs to: what the rest of the chain returns
TerminalValue(path) ==
    LET last == [path EXCEPT ![Len(path)] = Len(ListAt(path)) + 1]
    IN  trace[CHOOSE m \in DOMAIN trace :
                 trace[m].path = last /\ trace[m].call = "process_complete"].arg.v

\* what the stage behind the unwrap stage at path returned from end(): the
\* value the next unwrap stage returned, or the value of the rest of the chain
NextResult(path) ==
    IF IsUnwrap(StageAt(NextPath(path)))
    THEN trace[CHOOSE m \in DOMAIN trace :
                  trace[m].path = NextPath(path) /\ trace[m].call = "return"].arg.v
    ELSE TerminalValue(path)

NextIsSameCarrier(path) ==
    StageAt(NextPath(path)).kind = StageAt(path).kind

Instances ==
    {<<i>> : i \in DOMAIN chain}
    \cup UNION {UNION {{<<i, q, j>> : j \in DOMAIN stages[i].subchains[q]} :
                          q \in DOMAIN stages[i].subchains} :
                   i \in {i \in DOMAIN chain : chain[i].kind = "tee"}}
    \cup UNION {{trace[m].path \o <<j>> : j \in DOMAIN stages[trace[m].path[1]].composed_chain} :
                   m \in {m \in DOMAIN trace : trace[m].call = "make_subchain_for_input"}}

\* the calls that consume the instance at path: process_complete for a stage
\* with complete input, end() for the others
Consumed(path) ==
    IF has_complete_input(StageAt(path)) THEN Where(path, "process_complete")
    ELSE Where(path, "end")

\* an unwrap stage in front of the instance, in the same chain or sub-chain,
\* was handed an empty optional or an error
BehindEmptyUnwrap(path) ==
    \E u \in 1..(path[Len(path)] - 1) :
        /\ IsUnwrap(ListAt(path)[u])
        /\ SawEmpty([path EXCEPT ![Len(path)] = u])

\* the instance belongs to a sub-chain of a map_group_by whose next stage is done
InMapBeforeDone(path) ==
    /\ Len(path) = 3
    /\ stages[path[1]].kind = "map_group_by"
    /\ done(chain, path[1] + 1)

\* every process_incremental call of an instance comes before its end()
FedBeforeEnd ==
    \A P \in Instances :
        \A e \in Where(P, "end") : \A j \in Where(P, "process_incremental") : j < e

\* C27 as stated: every stage instance of a chain or sub-chain receives all of
\* its process_incremental calls before its end(), and its end() (its
\* process_complete, for a stage with complete input) is invoked exactly once
\* per run.
C27_ConsumedExactlyOnce ==
    /\ FedBeforeEnd
    /\ \A P \in Instances : Cardinality(Consumed(P)) <= 1
    /\ pc = "returned" => \A P \in Instances : Cardinality(Consumed(P)) = 1

\* C27, amended: every stage instance receives all of its process_incremental
\* calls before its end(), and is consumed at most once; in a finished run it
\* is consumed exactly once, except that an instance behind an unwrap stage
\* that was handed an empty or error carrier is never consumed, and that the
\* instances of a map_group_by sub-chain are consumed once or never when the
\* stage behind map_group_by is done.
C27_ConsumedOnceUnlessCutOff ==
    /\ FedBeforeEnd
    /\ \A P \in Instances : Cardinality(Consumed(P)) <= 1
    /\ pc = "returned" =>
          \A P \in Instances :
              IF BehindEmptyUnwrap(P) THEN Consumed(P) = {}
              ELSE IF InMapBeforeDone(P) THEN TRUE
              ELSE Cardinality(Consumed(P)) = 1

\* map_group_by in front of take_n(1): the sub-chain of one key was ended,
\* the sub-chain of the other key was fed and never ended
C27_Witness ==
    /\ pc = "returned"
    /\ stages[1].kind = "map_group_by"
    /\ \E P, Q \in Instances :
          /\ Len(P) = 3 /\ Len(Q) = 3
          /\ Cardinality(Consumed(P)) = 1
          /\ Consumed(Q) = {}
          /\ Where(Q, "process_incremental") # {}

\* ---------------------------------------------------------------- C28
\* the objects an argument is written with, left to right, each with the
\* form it is written in
RECURSIVE Leaves(_)
Leaves(node) ==
    IF node.form = "composition"
    THEN Concat([j \in DOMAIN node.parts |-> Leaves(node.parts[j])])
    ELSE <<[cat |-> node.cat, form |-> node.form, x |-> node.x]>>

\* the call written without compose: apply(S, a, b, c, d)
DirectArgs == Concat([j \in DOMAIN input.call |-> Leaves(input.call[j])])

DirectSource == AsSource(DirectArgs[1], input.call)

DirectStages == [j \in 1..(Len(DirectArgs) - 1) |-> DirectArgs[j + 1].x]

Decomposed == pc # "apply"

SourceInComposition == input.call[1].form = "composition"

\* the run has the source of the direct call, handed over the same way
SameSource ==
    /\ input.kind = DirectSource.kind
    /\ input.kind = "range" => input.how = DirectSource.how
    /\ pc = "make_chain" => input = DirectSource

\* C28 as stated: a composition is flattened before chain building and leaves
\* no trace: the call builds the stage sequence of the same call written
\* without compose, from the same source handed over the same way (so the
\* chain is built or rejected alike and the run returns the same result),
\* also when the source is the first part of a composition.
C28_CompositionLeavesNoTrace ==
    Decomposed =>
        /\ stages = DirectStages
        /\ SameSource
        /\ pc # "make_chain" => (pc = "error" <=> ~can_make_chain(DirectSource, DirectStages))

\* C28, the part that holds: the stage sequence is always the flat one, and
\* the source is handed over as written when it is written outside of every
\* composition, or inside temporaries as a temporary or a generator.
C28_FlatUnlessSourceStored ==
    Decomposed =>
        /\ stages = DirectStages
        /\ (\/ ~SourceInComposition
            \/ input.kind = "iota"
            \/ /\ DirectArgs[1].form = "plain" /\ DirectArgs[1].cat = "rvalue"
               /\ input.call[1].cat = "rvalue"
               /\ \A j \in DOMAIN input.call[1].parts : input.call[1].parts[j].cat = "rvalue")
           => /\ SameSource
              /\ pc # "make_chain" =>
                    (pc = "error" <=> ~can_make_chain(DirectSource, DirectStages))

\* apply(compose(std::ref(v), sort())): the chain is rejected, while
\* apply(std::ref(v), sort()) is built
C28_RefLosesMutability ==
    /\ pc = "error"
    /\ SourceInComposition
    /\ DirectArgs[1].form = "reference_wrapper"
    /\ can_make_chain(DirectSource, DirectStages)

\* apply(compose(v, sort())) for an lvalue v: the chain is built over a copy
\* and returns, while apply(v, sort()) is rejected
C28_LvalueIsCopied ==
    /\ pc = "returned"
    /\ SourceInComposition
    /\ DirectArgs[1].form = "plain" /\ DirectArgs[1].cat = "lvalue"
    /\ input.how = "rvalue"
    /\ ~can_make_chain(DirectSource, DirectStages)

\* apply(S, compose(a, compose(b, c)), d) has run to its end over a chain of
\* four stages
C28_Witness ==
    /\ pc = "returned"
    /\ Len(input.call) = 3
    /\ input.call[2].form = "composition"
    /\ \E j \in DOMAIN input.call[2].parts : input.call[2].parts[j].form = "composition"
    /\ Len(stages) = 4
    /\ stages = DirectStages

\* ---------------------------------------------------------------- C29
\* the sub-chain is what a chain freshly made from the stored descriptors
\* becomes when it is fed the elements of its own group and nothing else
FreshlyFed(sub, path) ==
    sub = FeedAll(make_chain(stages[1].composed_chain), Recv(path \o <<1>>))

\* C29: every sub-chain of group_by and map_group_by is instantiated from the
\* stored descriptors in their initial configuration and instantiation leaves
\* the descriptors unchanged: the descriptors held by the stage stay the ones
\* it was built with, a live sub-chain is in the state of a fresh chain fed
\* its own group only, and every emitted result is the result of a fresh
\* chain run over that group alone, however many groups came before.
C29_SubchainsFreshPerGroup ==
    stages[1].kind \in {"group_by", "map_group_by"} =>
      LET emitted == Recv(<<2>>)
      IN /\ chain[1].composed_chain = stages[1].composed_chain
         /\ (stages[1].kind = "group_by" /\ pc # "returned" /\ chain[1].current_group # <<>>) =>
               FreshlyFed(chain[1].current_group[1].second, <<1, chain[1].made>>)
         /\ (stages[1].kind = "map_group_by" /\ pc # "returned") =>
               \A k \in DOMAIN chain[1].chains : FreshlyFed(chain[1].chains[k], <<1, k>>)
         /\ \A j \in DOMAIN emitted :
               emitted[j].v[2] =
                 RunChain(stages[1].composed_chain,
                          Recv(<<1, IF stages[1].kind = "group_by" THEN j ELSE emitted[j].v[1], 1>>))

\* group_by over take_n(1), to<vector>: the first group spent its budget on
\* the first of its two elements, and the second group still collected its own
C29_Witness ==
    /\ pc = "returned"
    /\ stages[1].kind = "group_by"
    /\ stages[1].composed_chain = <<take_n(1), to_vector>>
    /\ Len(Recv(<<2>>)) >= 2
    /\ Len(Recv(<<1, 1, 1>>)) = 2
    /\ Len(Recv(<<2>>)[1].v[2]) = 1
    /\ Len(Recv(<<2>>)[2].v[2]) = 1

\* ---------------------------------------------------------------- C30
\* the keys of the pairs handed to the stage behind map_group_by, in order
EmittedKeys == [j \in DOMAIN Recv(<<2>>) |-> Recv(<<2>>)[j].v[1]]

\* the distinct keys of the input received, smallest first
AscendingKeys == SortedSeq(KeysOf(Recv(<<1>>)))

\* C30: with std::map, map_group_by emits its groups in ascending key order,
\* whatever the order in which the keys first appeared in the input: the keys
\* emitted are the smallest distinct keys of the input, smallest first, and
\* all of them when the run has returned and the next stage is not done.
C30_OrderedMapAscending ==
    (stages[1].kind = "map_group_by" /\ stages[1].Map = "map") =>
        /\ \A a, b \in DOMAIN EmittedKeys : a < b => EmittedKeys[a] < EmittedKeys[b]
        /\ Len(EmittedKeys) <= Len(AscendingKeys)
        /\ EmittedKeys = Prefix(AscendingKeys, Len(EmittedKeys))
        /\ (pc = "returned" /\ ~done(chain, 2)) => EmittedKeys = AscendingKeys

\* the keys first appeared in descending order and were emitted ascending
C30_Witness ==
    /\ pc = "returned"
    /\ stages[1].kind = "map_group_by" /\ stages[1].Map = "map"
    /\ Len(EmittedKeys) >= 2
    /\ \E a, b \in DOMAIN Recv(<<1>>) :
          /\ a < b
          /\ KeyOf(Recv(<<1>>)[a]) > KeyOf(Recv(<<1>>)[b])
          /\ KeyOf(Recv(<<1>>)[b]) = EmittedKeys[1]
          /\ FirstOcc(Recv(<<1>>), KeyOf(Recv(<<1>>)[b])) > FirstOcc(Recv(<<1>>), KeyOf(Recv(<<1>>)[a]))

\* ---------------------------------------------------------------- C31
\* the calls of that name on the stage at path all come before position q
AllBefore(path, call, q) == \A j \in Where(path, call) : j < q

AllAfter(path, call, q) == \A j \in Where(path, call) : j > q

\* C31: group_by holds at most one open (key, sub-chain) pair; when the key
\* of an element differs from the stored key, the open sub-chain is ended and
\* its (key, result) delivered to the next stage before the new sub-chain is
\* created and before the element is fed into it, so no element of run r+1
\* reaches a sub-chain before the group of run r was delivered.
C31_GroupByOneOpenGroup ==
    stages[1].kind = "group_by" =>
      LET pi == "process_incremental"
          mk == "make_subchain_for_input"
          made == chain[1].made
          runs == Runs(Recv(<<1>>))
      IN /\ Len(chain[1].current_group) <= 1
         /\ made = Len(runs)
         /\ Cardinality(MadeSubchains) = made
         /\ \A g \in 1..made :
              /\ Cardinality(Where(<<1, g>>, mk)) = 1
              /\ AllAfter(<<1, g, 1>>, pi, Nth(<<1, g>>, mk, 1))
              /\ Recv(<<1, g, 1>>) = runs[g]
         /\ \A g \in 2..made :
              /\ Ended(<<1, g - 1, 1>>) = 1
              /\ Cardinality(Where(<<2>>, pi)) >= g - 1
              /\ AllBefore(<<1, g - 1, 1>>, pi, Nth(<<1, g - 1, 1>>, "end", 1))
              /\ Nth(<<1, g - 1, 1>>, "end", 1) < Nth(<<2>>, pi, g - 1)
              /\ Nth(<<2>>, pi, g - 1) < Nth(<<1, g>>, mk, 1)
              /\ Recv(<<2>>)[g - 1].v[1] = KeyOf(runs[g - 1][1])
         /\ pc # "returned" =>
              /\ made > 0 => Ended(<<1, made, 1>>) = 0
              /\ Len(Recv(<<2>>)) = (IF made = 0 THEN 0 ELSE made - 1)

\* a key came back after another key: three groups were made, each delivered
\* before the next one was created
C31_Witness ==
    /\ pc = "returned"
    /\ stages[1].kind = "group_by"
    /\ chain[1].made = 3
    /\ Len(Recv(<<2>>)) = 3
    /\ Recv(<<2>>)[1].v[1] = Recv(<<2>>)[3].v[1]
    /\ Nth(<<2>>, "process_incremental", 2) < Nth(<<1, 3>>, "make_subchain_for_input", 1)

\* ---------------------------------------------------------------- C32
\* the calls recorded on the stages behind the first one
Downstream == {j \in DOMAIN trace : trace[j].path[1] >= 2}

\* C32: map_group_by calls nothing on the next stage, neither
\* process_incremental nor end(), while it is receiving elements: until its
\* own end() is entered the stages behind it are as they were built and no
\* call on them is recorded; every group is delivered inside that end().
C32_MapGroupByDefersEmission ==
    stages[1].kind = "map_group_by" =>
      /\ Cardinality(Where(<<1>>, "end")) = (IF pc = "returned" THEN 1 ELSE 0)
      /\ pc # "returned" =>
           /\ Downstream = {}
           /\ SubSeq(chain, 2, Len(chain)) = make_chain(SubSeq(stages, 2, Len(stages)))
      /\ \A j \in Downstream :
           /\ AllBefore(<<1>>, "end", j)
           /\ AllBefore(<<1>>, "process_incremental", j)

\* two groups were collected while the stage was receiving and both were
\* delivered after end() was entered
C32_Witness ==
    /\ pc = "returned"
    /\ stages[1].kind = "map_group_by"
    /\ Len(Recv(<<1>>)) = 3
    /\ Len(Recv(<<2>>)) = 2
    /\ \A j \in Where(<<2>>, "process_incremental") : Nth(<<1>>, "end", 1) < j

\* ---------------------------------------------------------------- C33
\* the calls with which the driving loop hands a source element to the chain
Pulled == Where(<<1>>, "process_incremental")

\* the source element whose call is running at position j of the trace, P
\* being the positions of the calls that hand over a source element
InFlight(j, P) ==
    trace[CHOOSE q \in P : q <= j /\ \A r \in P : r <= j => r <= q].arg

Flat(rows) == IF rows = <<>> THEN <<>> ELSE Concat(rows)

\* the first n values of xs repeated without end
RECURSIVE Cycle(_, _)
Cycle(xs, n) ==
    IF n = 0 \/ xs = <<>> THEN <<>>
    ELSE IF n <= Len(xs) THEN SubSeq(xs, 1, n)
    ELSE xs \o Cycle(xs, n - Len(xs))

Counting(b, n) == [j \in 1..n |-> b + j - 1]

\* C35: iota(b, e) with b <= e hands out exactly b, b+1, ..., e-1 in ascending
\* order, one value per call of the generator, and answers the call after
\* the last value (the first call when b = e) with "nothing follows";
\* iota(b) hands out b, b+1, ... one value per call and never answers so.
C35_IotaCountsUp ==
    LET b == input.begin
        n == input.last - input.begin
        exhausted == pc \in {"end", "returned"}
    IN /\ ValuesOf(Recv(<<1>>)) = Counting(b, it)
       /\ \A j \in DOMAIN Recv(<<1>>) : Recv(<<1>>)[j].p = "OwnedMovable"
       /\ ~exhausted => pulls = it
       /\ input.bounded =>
            /\ it <= n
            /\ exhausted <=> pulls = n + 1
            /\ exhausted => it = n
            /\ (pc = "returned" /\ stages = <<to_vector>>) => result = <<Counting(b, n)>>
            /\ (pc = "returned" /\ stages = <<count>>) => result = <<n>>
       /\ ~input.bounded => ~exhausted

\* iota(2, 5) handed out 2, 3, 4 in three calls and reported exhaustion in
\* the fourth
C35_Witness ==
    /\ pc = "returned"
    /\ input.bounded /\ input.begin = 2 /\ input.last = 5
    /\ stages = <<to_vector>>
    /\ result = <<(<<2, 3, 4>>)>>
    /\ pulls = 4

\* iota(2) was called MaxPull times and handed out a value each time
C35_WitnessUnbounded ==
    /\ ~input.bounded /\ input.begin = 2
    /\ it = MaxPull
    /\ pc = "loop"

\* ---------------------------------------------------------------- C36
RECURSIVE StaysDone(_, _)

\* from the chain a to the chain b it has become: every stage with its own
\* completion condition that was done is done, every position that was done
\* is done, and the budget of every take_n has not grown and is not negative;
\* the same inside the sub-chains of tee
StaysDone(a, b) ==
    /\ Len(b) = Len(a)
    /\ \A i \in DOMAIN a :
         /\ b[i].kind = a[i].kind
         /\ has_done(a[i]) => (impl_done(a[i]) => impl_done(b[i]))
         /\ done(a, i) => done(b, i)
         /\ a[i].kind = "take_n" => (b[i].n <= a[i].n /\ b[i].n >= 0)
         /\ a[i].kind = "tee" =>
              \A s \in DOMAIN a[i].chains : StaysDone(a[i].chains[s], b[i].chains[s])

\* C36: done() is monotone: a stage with its own completion condition
\* (take_n, unwrap_optional, unwrap_error_or) that has answered true answers
\* true at every later point of the run, and so does every chain position;
\* the remaining budget of take_n only decreases and never goes below 0.
C36_DoneIsMonotone == [][StaysDone(chain, chain')]_vars

\* take_n(1) behind an unwrap stage was handed a second element with its
\* budget spent and stayed at 0; the unwrap stage then saw an empty carrier
\* and was still done when the run returned
C36_Witness ==
    /\ pc = "returned"
    /\ Len(stages) = 3
    /\ stages[1].kind \in {"unwrap_optional", "unwrap_error_or"}
    /\ stages[2] = take_n(1)
    /\ Len(Recv(<<2>>)) = 2
    /\ chain[2].n = 0
    /\ impl_done(chain[1])
    /\ Len(Recv(<<1>>)) = 3
    /\ done(chain, 1) /\ done(chain, 2)

\* ---------------------------------------------------------------- C37
\* apply(S, group_by(key, sub), take_n(m), to) over a finite S
C37_Case ==
    /\ Len(stages) = 3
    /\ stages[1].kind = "group_by" /\ stages[2].kind = "take_n" /\ stages[3].kind = "to"
    /\ ~Infinite

\* the groups the run is to return: (key, result of sub over the run) for the
\* first min(m, R) maximal runs of S
C37_Groups ==
    LET runs == Runs(SourcePrefix(SourceLen))
    IN [g \in 1..Min(stages[2].n, Len(runs)) |->
          <<KeyOf(runs[g][1]), Expected(stages[1].composed_chain, runs[g])>>]

\* C37: for every finite input S with R maximal runs and every m >= 0,
\* apply(S, group_by(key, sub), take_n(m), collect) returns exactly the first
\* min(m, R) groups, each with the result over its complete run; the group
\* that is open when the iteration stops early never reaches the collecting
\* stage, neither in part nor as an extra group.
C37_FirstGroupsOnly ==
    C37_Case =>
      LET collected == ValuesOf(Recv(<<3>>))
      IN /\ Len(collected) <= Len(C37_Groups)
         /\ collected = Prefix(C37_Groups, Len(collected))
         /\ chain[3].out = collected
         /\ pc = "returned" => (result = <<C37_Groups>> /\ collected = C37_Groups)

\* take_n(2) behind group_by over 1, 2, 1: the loop stopped at the third
\* element, the group it opened was handed to take_n by end() and dropped
C37_Witness ==
    /\ C37_Case
    /\ pc = "returned"
    /\ stages[2].n = 2
    /\ stages[1].key_getter = "identity" /\ stages[1].composed_chain = <<count>>
    /\ input.kind = "range" /\ input.elems = <<1, 2, 1>>
    /\ it = 3
    /\ Len(Recv(<<2>>)) = 3
    /\ Recv(<<2>>)[3].v = <<1, 1>>
    /\ result = <<(<<(<<1, 1>>), (<<2, 1>>)>>)>>

\* ---------------------------------------------------------------- C38
\* the calls that hand an element to the first stage of a sub-chain of the
\* grouping stage
HandOns ==
    {j \in DOMAIN trace :
        /\ trace[j].call = "process_incremental"
        /\ Len(trace[j].path) = 3
        /\ trace[j].path[1] = 1 /\ trace[j].path[3] = 1}

\* the calls with which the loop hands an element to the grouping stage
Arrivals == Where(<<1>>, "process_incremental")

\* the arrivals among E that open a run: the first, and those whose key
\* differs from the key of the arrival before
RunStarts(E) ==
    {e \in E :
        \A q \in E :
            (q < e /\ \A r \in E : r < e => r <= q) =>
                KeyOf(trace[q].arg) # KeyOf(trace[e].arg)}

\* the sub-chain the element that arrived at e belongs to: the number of its
\* run for group_by, its key for map_group_by
SubchainOf(e, starts) ==
    IF stages[1].kind = "group_by" THEN Cardinality({q \in starts : q <= e})
    ELSE KeyOf(trace[e].arg)

\* the hand-ons among H made while the element that arrived at e was in flight
HandOnsOf(e, E, H) == {h \in H : h > e /\ \A q \in E : q > e => h < q}

\* the keys the stage holds
StoredKeys ==
    IF stages[1].kind = "group_by"
    THEN {chain[1].current_group[g].first : g \in DOMAIN chain[1].current_group}
    ELSE DOMAIN chain[1].chains

\* C38: group_by and map_group_by evaluate the key function exactly once per
\* element, on a read-only view of it, and compare and store the key before
\* they hand the element, with the provenance it came with, to the sub-chain;
\* nothing of the element or its key is read after that; every element is
\* handed to exactly one sub-chain, that of its key, exactly once.
C38_KeyOnceThenHandOn ==
    stages[1].kind \in {"group_by", "map_group_by"} =>
      LET mk == "make_subchain_for_input"
          E == Arrivals
          H == HandOns
          Keyed == Where(<<1>>, "key_getter")
          Made == MadeSubchains
          starts == RunStarts(E)
      IN /\ \A q \in Keyed : (q - 1) \in E /\ trace[q].arg = as_const(trace[q - 1].arg)
         /\ \A e \in E : (e + 1) \in Keyed
         /\ Cardinality(H) = Cardinality(E)
         /\ \A e \in E :
              LET sub == <<1, SubchainOf(e, starts)>>
                  made == {m \in Made : trace[m].path = sub}
                  hs == HandOnsOf(e, E, H)
              IN /\ Cardinality(hs) = 1
                 /\ Cardinality(made) = 1
                 /\ \A h \in hs :
                      /\ trace[h].path = sub \o <<1>>
                      /\ trace[h].arg = trace[e].arg
                      /\ \A m \in made : m < h /\ (m > e => m > e + 1)
         /\ (E # {} /\ pc \in {"loop", "end"}) =>
               \A e \in E : (\A q \in E : q <= e) => KeyOf(trace[e].arg) \in StoredKeys

\* the hand-on of the third element
C38_Third == HandOnsOf(Nth(<<1>>, "process_incremental", 3), Arrivals, HandOns)

\* a container handed over with std::move: 1, 2, 1 with the identity as key;
\* the third element was handed on as an rvalue after its key was taken from
\* a read-only view
C38_Witness ==
    /\ pc = "returned"
    /\ stages[1].kind = "group_by" /\ stages[1].key_getter = "identity"
    /\ input.kind = "range" /\ input.how = "rvalue" /\ input.elems = <<1, 2, 1>>
    /\ Cardinality(HandOns) = 3
    /\ C38_Third # {}
    /\ \A h \in C38_Third : trace[h].path = <<1, 3, 1>>
    /\ \A h \in C38_Third : trace[h].arg = [v |-> 1, p |-> "OwnedMovable"]
    /\ Args(<<1>>, "key_getter")[3] = [v |-> 1, p |-> "BorrowedImmutable"]
    /\ \A h \in C38_Third : Nth(<<1>>, "key_getter", 3) < h

\* the same for map_group_by: both elements with key 1 went to the one
\* sub-chain of that key
C38_WitnessMap ==
    /\ pc = "returned"
    /\ stages[1].kind = "map_group_by" /\ stages[1].key_getter = "identity"
    /\ input.kind = "range" /\ input.elems = <<1, 2, 1>>
    /\ Cardinality(HandOns) = 3
    /\ C38_Third # {}
    /\ \A h \in C38_Third : trace[h].path = <<1, 1, 1>>
    /\ \E h \in HandOns : h < Nth(<<1>>, "process_incremental", 2) /\ trace[h].path = <<1, 1, 1>>

\* ---------------------------------------------------------------- C39
\* every sub-chain of the tee at position i reports done()
AllSubchainsDone(i) == \A s \in DOMAIN chain[i].chains : done(chain[i].chains[s], 1)

\* C39: tee has no completion condition of its own: every element it receives
\* goes to every sub-chain, also to one that reports done(); done() at the
\* position of tee is done() of the position behind it; so a tee whose
\* sub-chains are all done does not stop the loop over the source, which ends
\* only when the source ends or a stage in front of tee is done.
C39_TeeNeverDone ==
    LET i == TeeAt
        T == Recv(<<i>>)
    IN stages[i].kind = "tee" =>
         /\ ~has_done(chain[i])
         /\ done(chain, i) = done(chain, i + 1)
         /\ ~done(chain, i)
         /\ \A s \in DOMAIN chain[i].chains :
               Recv(<<i, s, 1>>) = [j \in DOMAIN T |-> as_const(T[j])]
         /\ pc \in {"end", "returned"} =>
               \/ ~Infinite /\ it = SourceLen
               \/ stages[1].kind = "take_n" /\ chain[1].n = 0
         /\ (i = 1 /\ pc = "loop") => it = pulls

\* both sub-chains were done after the first element (one of them from the
\* start), and tee still handed all three elements to both
C39_Witness ==
    /\ pc = "returned"
    /\ stages = <<tee(<<(<<take_n(1), to_vector>>), (<<take_n(0), to_vector>>)>>)>>
    /\ input.kind = "range" /\ input.elems = <<1, 2, 3>>
    /\ it = 3
    /\ AllSubchainsDone(1)
    /\ Len(Recv(<<1, 1, 1>>)) = 3
    /\ Len(Recv(<<1, 2, 1>>)) = 3
    /\ Recv(<<1, 1, 2>>) = <<[v |-> 1, p |-> "BorrowedImmutable"]>>
    /\ Recv(<<1, 2, 2>>) = <<>>

\* over a generator that never ends the loop is still running after MaxPull
\* elements, every sub-chain being done
C39_WitnessInfinite ==
    /\ Infinite
    /\ stages[1].kind = "tee"
    /\ AllSubchainsDone(1)
    /\ pc = "loop"
    /\ it = MaxPull

====
